---- MODULE Spec2Model ----
(***************************************************************************)
(* A model of zalloc.h: the arena (zarena), the pool (zpool) and the debug *)
(* guard (zdebug), each over a backend heap (malloc / realloc / free).     *)
(* Addresses and sizes are unsigned words of SizeBits bits; every sum,     *)
(* difference and product of the source is taken modulo 2^SizeBits, as the *)
(* C code computes it in size_t / uintptr_t.                               *)
(***************************************************************************)
EXTENDS Integers, Sequences, FiniteSets, TLC

\* ---------------------------------------------------------------- bounds
\* Width of size_t / uintptr_t in the model (64 in the build).
SizeBits == 16
\* Number of API calls in one run of the arena.
MaxArenaOps == 3
\* Backend heap: HeapSlots candidate chunk addresses, HeapStep bytes apart.
HeapSlots == 12
\* The backend answers the arena with one of the ArenaMallocChoices lowest free chunks.
ArenaMallocChoices == 1

SizeMod == 2 ^ SizeBits
W(x) == x % SizeMod

NULL == 0

\* ------------------------------------------------------- backend (malloc)
HeapBase == 4096
HeapStep == 4128
HeapEnd == HeapBase + HeapSlots * HeapStep
HeapAddrs == {HeapBase + k * HeapStep : k \in 0 .. (HeapSlots - 1)}

\* A chunk of n requested bytes occupies at least one byte.
ChunkLen(n) == IF n = 0 THEN 1 ELSE n

\* [addr, addr + n) lies in the heap and overlaps no chunk of heap hp.
ChunkFree(hp, addr, n) ==
    /\ addr + ChunkLen(n) <= HeapEnd
    /\ \A c \in DOMAIN hp :
          (addr + ChunkLen(n) <= c) \/ (c + ChunkLen(hp[c]) <= addr)

\* malloc(n): NULL, or the address of a free chunk able to hold n bytes.
Z_MALLOC(hp, n, choices) ==
    LET free == {addr \in HeapAddrs : ChunkFree(hp, addr, n)} IN
    {NULL} \cup {addr \in free : Cardinality({x \in free : x < addr}) < choices}

EmptyMap == [c \in {} |-> 0]

HeapPut(hp, addr, n) == [c \in DOMAIN hp \cup {addr} |-> IF c = addr THEN n ELSE hp[c]]
HeapDel(hp, addrs) == [c \in DOMAIN hp \ addrs |-> hp[c]]

\* ------------------------------------------------------------------ arena
ZARENA_MAX_ALIGN == 16
ZARENA_DEFAULT_BLOCK_SIZE == 4096
\* sizeof(zarena_block): next, capacity, used (the data[] member adds nothing).
SizeofBlock == 24

VARIABLES
    fault,      \* "none", or how the process died (abort, or a crash of undefined behaviour)
    heap,       \* backend: chunk address -> requested size
    a,          \* zarena: [head, first, total_alloc]
    blk,        \* zarena_block at each block address: [next, capacity, used]
    mem,        \* bytes written into heap memory: address -> byte
    regions,    \* regions the caller holds since the last init/reset/free
    firstAlloc, \* the first successful allocation since init/free: <<[s,a,p]>> or <<>>
    ret,        \* the last call and what it returned
    onlyAlign,  \* only zarena_alloc_align was called since the arena was fresh
    nmalloc,    \* backend allocate calls made by the arena
    nfree,      \* backend release calls made by the arena
    aops,       \* number of arena calls made
    created,    \* the blocks obtained from the backend since the last init/free, in order:
                \* <<[b, capacity]>>
    counted,    \* what the calls since the last init/reset/free added up: requested bytes
                \* of successful allocations and the growth of in-place reallocs
    wasReset,   \* zarena_reset was called since the last init/free
    run1,       \* the zarena_alloc_align calls made on the fresh arena, in order:
                \* <<[size, align, ptr, refused]>>
    replay,     \* [mode, at]: "first" while only zarena_alloc_align was called since
                \* init/free, "again" once zarena_reset followed and the calls since
                \* repeat run1 (at of them so far), "off" otherwise
    pool,       \* zpool: [item_size, count_per_block, head, blocks, block_count, block_cap]
    parr,       \* the slab pointers stored in p->blocks[0 .. block_count)
    pnext,      \* node->next of the free-list nodes laid over item memory: address -> address
    pheld,      \* the items callers hold, in the order zpool_alloc returned them
    pret,       \* the last pool call and what it returned
    phist,      \* what happened since zpool_init: [slabs, released, recycled, failed, misused]
    pops,       \* number of pool calls made
    g_zdebug_head, \* head of the guard's live list
    hdr,        \* zdebug_header at each chunk address the guard has used: released ones keep
                \* what was last written there
    glive,      \* the payload pointers the caller holds: handed out and not released by it
    greleased,  \* the payload pointers the caller has released
    gviol,      \* the violations the caller has committed: "stale" (use of a released
                \* pointer), "past" (a write past a payload)
    gret,       \* the last guard call and what it returned
    gops,       \* number of guard calls made
    lock,       \* the thread inside ZDEBUG_LOCK() .. ZDEBUG_UNLOCK(), or NoThread
    tpc,        \* where each thread is in the guard call it is making
    th          \* each thread's call: [op, h, size, site, own, ops, count]; own are the
                \* payload pointers the thread holds

arenaVars == <<a, blk, regions, firstAlloc, ret, onlyAlign, nmalloc, nfree, aops,
              created, counted, wasReset, run1, replay>>
poolVars == <<pool, parr, pnext, pheld, pret, phist, pops>>

guardVars == <<g_zdebug_head, hdr, glive, greleased, gviol, gret, gops>>

threadVars == <<lock, tpc, th>>

vars == <<fault, heap, mem, arenaVars, poolVars, guardVars, threadVars>>

\* (uintptr_t)b->data
Data(b) == b + SizeofBlock

\* (ptr + (align - 1)) & ~(align - 1), align a power of two
_zarena_align_ptr(ptr, align) ==
    LET t == W(ptr + (align - 1)) IN t - (t % align)

\* The first branch of zarena_alloc_align: the request fits in head.
FitsHead(ar, bl, size, align) ==
    /\ ar.head # NULL
    /\ LET base    == Data(ar.head)
           curr    == W(base + bl[ar.head].used)
           next    == _zarena_align_ptr(curr, align)
           padding == W(next - curr)
           needed  == W(size + padding)
       IN  W(bl[ar.head].used + needed) <= bl[ar.head].capacity

\* The second branch without its capacity test: head has a next block.
FitsNext_always(ar, bl, size, align) ==
    /\ ar.head # NULL
    /\ bl[ar.head].next # NULL

\* The second branch: head has a next block and the request fits in it.
FitsNext(ar, bl, size, align) ==
    /\ ar.head # NULL
    /\ bl[ar.head].next # NULL
    /\ LET next_blk == bl[ar.head].next
           base     == Data(next_blk)
           start    == _zarena_align_ptr(base, align)
           padding  == W(start - base)
       IN  W(size + padding) <= bl[next_blk].capacity

\* next_cap without the doubling: the head's capacity, or the request's bytes.
NextCap_no_growth(ar, bl, size, align) ==
    LET next_cap == IF ar.head # NULL THEN bl[ar.head].capacity
                    ELSE ZARENA_DEFAULT_BLOCK_SIZE
    IN  IF next_cap < W(size + align) THEN W(size + align) ELSE next_cap

\* The capacity of the block the third branch creates.
NextCap(ar, bl, size, align) ==
    LET next_cap == IF ar.head # NULL THEN W(bl[ar.head].capacity * 2)
                    ELSE ZARENA_DEFAULT_BLOCK_SIZE
    IN  IF next_cap < W(size + align) THEN W(size + align) ELSE next_cap

\* Which branch serves zarena_alloc_align(size, align).
AllocPath(ar, bl, size, align) ==
    IF size = 0 THEN "zero"
    ELSE IF FitsHead(ar, bl, size, align) THEN "bump"
    ELSE IF FitsNext(ar, bl, size, align) THEN "advance"
    ELSE "new"

\* The sizeof(zarena_block) + cap bytes _zarena_new_block asks the backend for.
NewBlockBytes(ar, bl, size, align) == W(SizeofBlock + NextCap(ar, bl, size, align))

\* zarena_alloc_align on arena ar with blocks bl and backend heap hp; m is what
\* the backend returns if the call reaches _zarena_new_block.
zarena_alloc_align(ar, bl, hp, size, align, m) ==
    LET path == AllocPath(ar, bl, size, align) IN
    IF path = "zero" THEN
        [a |-> ar, blk |-> bl, heap |-> hp, ptr |-> NULL, path |-> "zero", asked |-> FALSE]
    ELSE IF path = "bump" THEN
        LET h       == ar.head
            curr    == W(Data(h) + bl[h].used)
            next    == _zarena_align_ptr(curr, align)
            padding == W(next - curr)
            needed  == W(size + padding)
        IN  [a    |-> [ar EXCEPT !.total_alloc = W(@ + size)],
             blk  |-> [bl EXCEPT ![h].used = W(@ + needed)],
             heap |-> hp, ptr |-> next, path |-> "bump", asked |-> FALSE]
    ELSE IF path = "advance" THEN
        LET next_blk == bl[ar.head].next
            base     == Data(next_blk)
            start    == _zarena_align_ptr(base, align)
            padding  == W(start - base)
        IN  [a    |-> [ar EXCEPT !.head = next_blk, !.total_alloc = W(@ + size)],
             blk  |-> [bl EXCEPT ![next_blk].used = W(size + padding)],
             heap |-> hp, ptr |-> start, path |-> "advance", asked |-> FALSE]
    ELSE IF m = NULL THEN
        [a |-> ar, blk |-> bl, heap |-> hp, ptr |-> NULL, path |-> "oom", asked |-> TRUE]
    ELSE
        LET next_cap == NextCap(ar, bl, size, align)
            base     == Data(m)
            start    == _zarena_align_ptr(base, align)
            padding  == W(start - base)
            b        == [next     |-> IF ar.head # NULL THEN bl[ar.head].next ELSE NULL,
                         capacity |-> next_cap,
                         used     |-> W(size + padding)]
            bl1      == [x \in DOMAIN bl \cup {m} |->
                            IF x = m THEN b
                            ELSE IF x = ar.head THEN [bl[x] EXCEPT !.next = m]
                            ELSE bl[x]]
        IN  [a    |-> [head        |-> m,
                       first       |-> IF ar.head # NULL THEN ar.first ELSE m,
                       total_alloc |-> W(ar.total_alloc + size)],
             blk  |-> bl1,
             heap |-> HeapPut(hp, m, NewBlockBytes(ar, bl, size, align)),
             ptr  |-> start, path |-> "new", asked |-> TRUE]

\* What the backend may answer to the call: only the third branch asks it.
BackendAnswers(ar, bl, hp, size, align) ==
    IF AllocPath(ar, bl, size, align) = "new"
    THEN Z_MALLOC(hp, NewBlockBytes(ar, bl, size, align), ArenaMallocChoices)
    ELSE {NULL}

\* memset(p, v, n) and memcpy(dst, src, n) on the written bytes me; a byte never
\* written has no entry (its value is indeterminate), and a copy of it has none.
MemSet(me, p, v, n) ==
    [x \in DOMAIN me \cup (p .. (p + n - 1)) |-> IF x \in p .. (p + n - 1) THEN v ELSE me[x]]

MemCpy(me, dst, src, n) ==
    LET to == dst .. (dst + n - 1)
        from == {y \in DOMAIN me : y \in src .. (src + n - 1)}
    IN  [x \in (DOMAIN me \ to) \cup {dst + (y - src) : y \in from} |->
            IF x \in to THEN me[src + (x - dst)] ELSE me[x]]

\* A byte range the process may touch: it lies in the backend heap's address range.
Mapped(p, n) == HeapBase <= p /\ p + n <= HeapEnd

\* zarena_alloc that adds to total_alloc what it adds to used, padding included.
zarena_alloc_counts_padding(ar, bl, hp, size, m) ==
    LET r    == zarena_alloc_align(ar, bl, hp, size, ZARENA_MAX_ALIGN, m)
        was  == IF r.path = "bump" THEN bl[ar.head].used ELSE 0
    IN  IF r.ptr = NULL THEN r
        ELSE [r EXCEPT !.a.total_alloc = W(ar.total_alloc + W(r.blk[r.a.head].used - was))]

\* zarena_alloc with the request counted before it is known to be served.
zarena_alloc_counts_first(ar, bl, hp, size, m) ==
    LET r == zarena_alloc_align(ar, bl, hp, size, ZARENA_MAX_ALIGN, m) IN
    [r EXCEPT !.a.total_alloc = W(ar.total_alloc + size)]

\* zarena_alloc: zarena_alloc_align with ZARENA_MAX_ALIGN.
zarena_alloc(ar, bl, hp, size, m) ==
    zarena_alloc_align(ar, bl, hp, size, ZARENA_MAX_ALIGN, m)

\* Which branch serves zarena_realloc(old_ptr, old_size, new_size).
ReallocPath(ar, bl, old_ptr, old_size, new_size) ==
    IF old_ptr = NULL THEN "alloc"
    ELSE IF new_size = 0 THEN "zero"
    ELSE IF new_size <= old_size THEN "keep"
    ELSE IF /\ ar.head # NULL
            /\ W(old_ptr + old_size) = W(Data(ar.head) + bl[ar.head].used)
            /\ W(bl[ar.head].used + W(new_size - old_size)) <= bl[ar.head].capacity
         THEN "extend"
    ELSE "copy"

\* zarena_realloc; me is the memory content, m the backend's answer if asked.
zarena_realloc(ar, bl, hp, me, old_ptr, old_size, new_size, m) ==
    LET path == ReallocPath(ar, bl, old_ptr, old_size, new_size) IN
    IF path = "alloc" THEN
        [zarena_alloc(ar, bl, hp, new_size, m) EXCEPT !.path = "alloc"] @@ [mem |-> me, copied |-> FALSE]
    ELSE IF path = "zero" THEN
        [a |-> ar, blk |-> bl, heap |-> hp, mem |-> me, ptr |-> NULL, path |-> "zero",
         asked |-> FALSE, copied |-> FALSE]
    ELSE IF path = "keep" THEN
        [a |-> ar, blk |-> bl, heap |-> hp, mem |-> me, ptr |-> old_ptr, path |-> "keep",
         asked |-> FALSE, copied |-> FALSE]
    ELSE IF path = "extend" THEN
        LET diff == W(new_size - old_size) IN
        [a    |-> [ar EXCEPT !.total_alloc = W(@ + diff)],
         blk  |-> [bl EXCEPT ![ar.head].used = W(@ + diff)],
         heap |-> hp, mem |-> me, ptr |-> old_ptr, path |-> "extend",
         asked |-> FALSE, copied |-> FALSE]
    ELSE
        LET r == zarena_alloc(ar, bl, hp, new_size, m) IN
        [a |-> r.a, blk |-> r.blk, heap |-> r.heap,
         mem |-> IF r.ptr # NULL THEN MemCpy(me, r.ptr, old_ptr, old_size) ELSE me,
         ptr |-> r.ptr, path |-> "copy", asked |-> r.asked, copied |-> r.ptr # NULL]

\* The blocks from b along the next links (at most n of them).
RECURSIVE Chain(_, _, _)
Chain(bl, b, n) ==
    IF b = NULL \/ n = 0 \/ b \notin DOMAIN bl THEN << >>
    ELSE <<b>> \o Chain(bl, bl[b].next, n - 1)

ChainOf(ar, bl) == Chain(bl, ar.first, Cardinality(DOMAIN bl))
ChainSet(ar, bl) == {ChainOf(ar, bl)[i] : i \in 1 .. Len(ChainOf(ar, bl))}

\* zarena_reset that rewinds the cursor of the head block only.
zarena_reset_head_only(ar, bl) ==
    [a   |-> [ar EXCEPT !.head = ar.first, !.total_alloc = 0],
     blk |-> [b \in DOMAIN bl |-> IF b = ar.head THEN [bl[b] EXCEPT !.used = 0] ELSE bl[b]]]

\* zarena_reset: every block of the chain gets used = 0, head = first.
zarena_reset(ar, bl) ==
    [a   |-> [ar EXCEPT !.head = ar.first, !.total_alloc = 0],
     blk |-> [b \in DOMAIN bl |-> IF b \in ChainSet(ar, bl) THEN [bl[b] EXCEPT !.used = 0] ELSE bl[b]]]

\* zarena_free whose walk starts at head instead of first.
zarena_free_from_head(ar, bl, hp) ==
    LET walk == Chain(bl, ar.head, Cardinality(DOMAIN bl))
        gone == {walk[i] : i \in 1 .. Len(walk)}
    IN  [a    |-> [head |-> NULL, first |-> NULL, total_alloc |-> 0],
         blk  |-> [b \in DOMAIN bl \ gone |-> bl[b]],
         heap |-> HeapDel(hp, gone),
         freed |-> walk]

\* zarena_free whose final memset clears first and total_alloc but not head.
zarena_free_keeps_head(ar, bl, hp) ==
    [a    |-> [head |-> ar.head, first |-> NULL, total_alloc |-> 0],
     blk  |-> [b \in DOMAIN bl \ ChainSet(ar, bl) |-> bl[b]],
     heap |-> HeapDel(hp, ChainSet(ar, bl)),
     freed |-> ChainOf(ar, bl)]

\* zarena_free: every block of the chain goes back to the backend, the arena is zeroed.
zarena_free(ar, bl, hp) ==
    [a    |-> [head |-> NULL, first |-> NULL, total_alloc |-> 0],
     blk  |-> [b \in DOMAIN bl \ ChainSet(ar, bl) |-> bl[b]],
     heap |-> HeapDel(hp, ChainSet(ar, bl)),
     freed |-> ChainOf(ar, bl)]

ArenaFrame == UNCHANGED <<poolVars, guardVars, threadVars>>

ArenaInitState ==
    /\ a = [head |-> NULL, first |-> NULL, total_alloc |-> 0]
    /\ blk = EmptyMap
    /\ mem = EmptyMap
    /\ regions = << >>
    /\ firstAlloc = << >>
    /\ ret = [op |-> "init", prev |-> "none", size |-> 0, align |-> 0, ptr |-> NULL,
              path |-> "none", old_ptr |-> NULL, old_size |-> 0]
    /\ onlyAlign = TRUE
    /\ nmalloc = 0
    /\ nfree = 0
    /\ aops = 0
    /\ created = << >>
    /\ counted = 0
    /\ wasReset = FALSE
    /\ run1 = << >>
    /\ replay = [mode |-> "first", at |-> 0]

\* ---------------------------------------------------------- arena: calls
\* Request sizes: none, small, nearly a default block, and one so large that
\* sums with it leave the word.
ArenaSizes == {0, 16, 4090, SizeMod - 9}
\* Requests <<size, align>> given to zarena_alloc_align.
ArenaRequests == ({0, 16, 4090} \X {1, 16}) \cup {<<SizeMod - 9, 16>>}
\* Sizes given to zarena_alloc_zero, whose zero-fill is followed byte by byte.
\* Sizes given to zarena_alloc.
ArenaAllocSizes == {0, 16, 4090}
ArenaZeroSizes == {0, 16, SizeMod - 9}

ArenaCall(n) == aops < n /\ fault = "none"

\* _zarena_new_block writes a sizeof(zarena_block) header into the chunk: when
\* the byte count wrapped below it the writes leave the chunk, and the process
\* either goes on or dies.
NewBlockFaults(hp, r) ==
    IF r.heap # hp /\ r.heap[r.a.head] < SizeofBlock THEN {"none", "ub"} ELSE {"none"}

Returned(op, r, size, align, old_ptr, old_size) ==
    /\ ret' = [op |-> op, prev |-> ret.op, size |-> size, align |-> align, ptr |-> r.ptr,
               path |-> r.path, old_ptr |-> old_ptr, old_size |-> old_size]
    /\ nmalloc' = nmalloc + (IF r.asked THEN 1 ELSE 0)
    /\ aops' = aops + 1
    /\ created' = IF r.heap # heap
                  THEN Append(created, [b |-> r.a.head, capacity |-> r.blk[r.a.head].capacity])
                  ELSE created
    /\ counted' = IF r.path = "extend" THEN counted + (size - old_size)
                  ELSE IF r.ptr # NULL /\ r.path # "keep" THEN counted + size
                  ELSE counted
    /\ UNCHANGED wasReset
    /\ run1' = IF op = "alloc_align" /\ replay.mode = "first"
               THEN Append(run1, [size |-> size, align |-> align, ptr |-> r.ptr,
                                  refused |-> r.path = "oom"])
               ELSE run1
    /\ replay' = IF op = "alloc_align" /\ replay.mode = "first" THEN replay
                 ELSE IF /\ op = "alloc_align" /\ replay.mode = "again"
                         /\ replay.at < Len(run1)
                         /\ run1[replay.at + 1].size = size
                         /\ run1[replay.at + 1].align = align
                      THEN [replay EXCEPT !.at = @ + 1]
                 ELSE [mode |-> "off", at |-> 0]

NoteFirst(op, r, size, align) ==
    firstAlloc' = IF firstAlloc = << >> /\ r.ptr # NULL
                  THEN <<[op |-> op, s |-> size, a |-> align, p |-> r.ptr]>>
                  ELSE firstAlloc

Hold(r, size, align) ==
    IF r.ptr # NULL THEN Append(regions, [p |-> r.ptr, size |-> size, align |-> align])
    ELSE regions

ArenaInit(n) ==
    /\ ArenaCall(n)
    /\ a' = [head |-> NULL, first |-> NULL, total_alloc |-> 0]
    /\ regions' = << >>
    /\ firstAlloc' = << >>
    /\ onlyAlign' = TRUE
    /\ ret' = [op |-> "init", prev |-> ret.op, size |-> 0, align |-> 0, ptr |-> NULL,
               path |-> "none", old_ptr |-> NULL, old_size |-> 0]
    /\ aops' = aops + 1
    /\ created' = << >>
    /\ counted' = 0
    /\ wasReset' = FALSE
    /\ run1' = << >>
    /\ replay' = [mode |-> "first", at |-> 0]
    /\ UNCHANGED <<fault, heap, blk, mem, nmalloc, nfree>>
    /\ ArenaFrame

ArenaAllocAlign(n, Requests) ==
    /\ ArenaCall(n)
    /\ \E rq \in Requests :
       \E m \in BackendAnswers(a, blk, heap, rq[1], rq[2]) :
          LET size  == rq[1]
              align == rq[2]
              r     == zarena_alloc_align(a, blk, heap, size, align, m)
          IN
          /\ a' = r.a /\ blk' = r.blk /\ heap' = r.heap
          /\ fault' \in NewBlockFaults(heap, r)
          /\ regions' = Hold(r, size, align)
          /\ NoteFirst("alloc_align", r, size, align)
          /\ Returned("alloc_align", r, size, align, NULL, 0)
          /\ UNCHANGED <<mem, onlyAlign, nfree>>
    /\ ArenaFrame

ArenaAlloc(n, Sizes) ==
    /\ ArenaCall(n)
    /\ \E size \in Sizes :
       \E m \in BackendAnswers(a, blk, heap, size, ZARENA_MAX_ALIGN) :
          LET r == zarena_alloc(a, blk, heap, size, m) IN
          /\ a' = r.a /\ blk' = r.blk /\ heap' = r.heap
          /\ fault' \in NewBlockFaults(heap, r)
          /\ regions' = Hold(r, size, ZARENA_MAX_ALIGN)
          /\ NoteFirst("alloc", r, size, ZARENA_MAX_ALIGN)
          /\ onlyAlign' = FALSE
          /\ Returned("alloc", r, size, ZARENA_MAX_ALIGN, NULL, 0)
          /\ UNCHANGED <<mem, nfree>>
    /\ ArenaFrame

\* zarena_alloc_zero: zarena_alloc_align, then memset(p, 0, size).
ArenaAllocZero(n, Sizes) ==
    /\ ArenaCall(n)
    /\ \E size \in Sizes :
       \E m \in BackendAnswers(a, blk, heap, size, ZARENA_MAX_ALIGN) :
          LET r == zarena_alloc_align(a, blk, heap, size, ZARENA_MAX_ALIGN, m)
              wild == r.ptr # NULL /\ ~Mapped(r.ptr, size)
          IN
          /\ a' = r.a /\ blk' = r.blk /\ heap' = r.heap
          /\ fault' \in IF wild THEN {"ub"} ELSE NewBlockFaults(heap, r)
          /\ mem' = IF r.ptr # NULL /\ ~wild THEN MemSet(mem, r.ptr, 0, size) ELSE mem
          /\ regions' = Hold(r, size, ZARENA_MAX_ALIGN)
          /\ NoteFirst("alloc_zero", r, size, ZARENA_MAX_ALIGN)
          /\ onlyAlign' = FALSE
          /\ Returned("alloc_zero", r, size, ZARENA_MAX_ALIGN, NULL, 0)
          /\ UNCHANGED <<nfree>>
    /\ ArenaFrame

ReallocAnswers(ar, bl, hp, old_ptr, old_size, new_size) ==
    IF ReallocPath(ar, bl, old_ptr, old_size, new_size) \in {"alloc", "copy"}
    THEN BackendAnswers(ar, bl, hp, new_size, ZARENA_MAX_ALIGN)
    ELSE {NULL}

\* The caller's regions after zarena_realloc of regions[i] (0: a null old_ptr).
Rehold(i, r, new_size) ==
    LET rest == IF i = 0 THEN regions
                ELSE SubSeq(regions, 1, i - 1) \o SubSeq(regions, i + 1, Len(regions))
        now  == [p |-> r.ptr, size |-> new_size, align |-> ZARENA_MAX_ALIGN]
    IN  IF r.path \in {"keep", "extend"} THEN [regions EXCEPT ![i].size = new_size]
        ELSE IF r.ptr # NULL THEN Append(rest, now)
        ELSE regions

\* zarena_realloc of a region the caller holds, passed with its size, or of NULL.
ArenaRealloc(n, Sizes) ==
    /\ ArenaCall(n)
    /\ \E i \in 0 .. Len(regions), new_size \in Sizes :
       LET old_ptr  == IF i = 0 THEN NULL ELSE regions[i].p
           old_size == IF i = 0 THEN 0 ELSE regions[i].size
       IN
       \E m \in ReallocAnswers(a, blk, heap, old_ptr, old_size, new_size) :
          LET r == zarena_realloc(a, blk, heap, mem, old_ptr, old_size, new_size, m)
              wild == r.copied /\ ~(Mapped(old_ptr, old_size) /\ Mapped(r.ptr, old_size))
          IN
          /\ a' = r.a /\ blk' = r.blk /\ heap' = r.heap
          /\ fault' \in IF wild THEN {"ub"} ELSE NewBlockFaults(heap, r)
          /\ mem' = IF wild THEN mem ELSE r.mem
          /\ regions' = Rehold(i, r, new_size)
          /\ NoteFirst("realloc", r, new_size, ZARENA_MAX_ALIGN)
          /\ onlyAlign' = FALSE
          /\ Returned("realloc", r, new_size, ZARENA_MAX_ALIGN, old_ptr, old_size)
          /\ UNCHANGED <<nfree>>
    /\ ArenaFrame

ArenaReset(n) ==
    /\ ArenaCall(n)
    /\ LET r == zarena_reset(a, blk) IN
       /\ a' = r.a /\ blk' = r.blk
    /\ regions' = << >>
    /\ onlyAlign' = FALSE
    /\ ret' = [op |-> "reset", prev |-> ret.op, size |-> 0, align |-> 0, ptr |-> NULL,
               path |-> "none", old_ptr |-> NULL, old_size |-> 0]
    /\ aops' = aops + 1
    /\ counted' = 0
    /\ wasReset' = TRUE
    /\ replay' = IF replay.mode = "first" THEN [mode |-> "again", at |-> 0]
                 ELSE [mode |-> "off", at |-> 0]
    /\ UNCHANGED <<fault, heap, mem, firstAlloc, nmalloc, nfree, created, run1>>
    /\ ArenaFrame

ArenaFree(n) ==
    /\ ArenaCall(n)
    /\ LET r == zarena_free(a, blk, heap) IN
       /\ a' = r.a /\ blk' = r.blk /\ heap' = r.heap
       /\ nfree' = nfree + Len(r.freed)
       /\ mem' = [x \in {y \in DOMAIN mem : \E c \in DOMAIN r.heap : c <= y /\ y < c + r.heap[c]}
                    |-> mem[x]]
    /\ regions' = << >>
    /\ firstAlloc' = << >>
    /\ onlyAlign' = TRUE
    /\ ret' = [op |-> "free", prev |-> ret.op, size |-> 0, align |-> 0, ptr |-> NULL,
               path |-> "none", old_ptr |-> NULL, old_size |-> 0]
    /\ aops' = aops + 1
    /\ created' = << >>
    /\ counted' = 0
    /\ wasReset' = FALSE
    /\ run1' = << >>
    /\ replay' = [mode |-> "first", at |-> 0]
    /\ UNCHANGED <<fault, nmalloc>>
    /\ ArenaFrame

\* The caller stores a byte at the start of the region it got last.
ArenaWrite ==
    /\ fault = "none"
    /\ regions # << >>
    /\ LET i == Len(regions) IN
          /\ ret.ptr = regions[i].p
          /\ Mapped(regions[i].p, 1)
          /\ regions[i].p \notin DOMAIN mem
          /\ mem' = MemSet(mem, regions[i].p, 170 + i, 1)
    /\ UNCHANGED <<fault, heap, a, blk, regions, firstAlloc, ret, onlyAlign, nmalloc, nfree, aops,
                   created, counted, wasReset, run1, replay>>
    /\ ArenaFrame

ArenaNext ==
    \/ ArenaInit(MaxArenaOps)
    \/ ArenaAllocAlign(MaxArenaOps, ArenaRequests)
    \/ ArenaAlloc(MaxArenaOps, ArenaAllocSizes)
    \/ ArenaAllocZero(MaxArenaOps, ArenaZeroSizes)
    \/ ArenaRealloc(MaxArenaOps, ArenaSizes)
    \/ ArenaReset(MaxArenaOps)
    \/ ArenaFree(MaxArenaOps)
    \/ ArenaWrite

\* Number of arena calls in a run that builds a chain, resets it and goes on.
MaxChainOps == 5
\* Its requests: small, nearly a default block, more than two default blocks hold,
\* and one so large that sums with it leave the word.
ChainSizes == {4090}
ChainRequests == {<<16, 1>>, <<8190, 16>>, <<SizeMod - 9, 16>>}
ChainReallocSizes == {16, 4090}

ArenaChainNext ==
    \/ ArenaInit(MaxChainOps)
    \/ ArenaAllocAlign(MaxChainOps, ChainRequests)
    \/ ArenaAlloc(MaxChainOps, ChainSizes)
    \/ ArenaRealloc(MaxChainOps, ChainReallocSizes)
    \/ ArenaReset(MaxChainOps)
    \/ ArenaFree(MaxChainOps)

\* ----------------------------------------------------------- arena: claims
\* Two byte ranges [p, p + size) share no byte.
Disjoint(r1, r2) == r1.p + r1.size <= r2.p \/ r2.p + r2.size <= r1.p

\* C1: on a freshly-initialized arena, with only zarena_alloc_align calls and no
\* reset or free in between, the regions [p, p + size) the successful calls
\* returned are pairwise disjoint (compared here are the regions of at most
\* ZARENA_DEFAULT_BLOCK_SIZE bytes, so that an overlap found is one of two regions
\* a block can hold).
C1_RegionsDisjoint ==
    (fault = "none" /\ onlyAlign) =>
        \A i, j \in 1 .. Len(regions) :
            (/\ i < j
             /\ regions[i].size <= ZARENA_DEFAULT_BLOCK_SIZE
             /\ regions[j].size <= ZARENA_DEFAULT_BLOCK_SIZE)
            => Disjoint(regions[i], regions[j])

\* C2: a non-null address zarena_alloc_align(size, align) returns is a multiple of
\* align, and [p, p + size) lies in the data buffer of the block that is head when
\* the call returns, at or below its used cursor; every block has used <= capacity.
C2_ReturnedInsideHead ==
    fault = "none" =>
        /\ (ret.op = "alloc_align" /\ ret.ptr # NULL) =>
              /\ ret.ptr % ret.align = 0
              /\ Data(a.head) <= ret.ptr
              /\ ret.ptr + ret.size <= Data(a.head) + blk[a.head].used
              /\ ret.ptr + ret.size <= Data(a.head) + blk[a.head].capacity
        /\ \A b \in DOMAIN blk : blk[b].used <= blk[b].capacity

\* C3: when the arena's very first successful allocation was zarena_alloc_align(s, a)
\* returning p, the zarena_alloc_align(s, a) that follows a zarena_reset returns p
\* (stated for the calls the backend did not refuse).
C3_ResetReuse ==
    (/\ fault = "none"
     /\ ret.op = "alloc_align" /\ ret.prev = "reset" /\ ret.path # "oom"
     /\ firstAlloc # << >>
     /\ firstAlloc[1].op = "alloc_align"
     /\ ret.size = firstAlloc[1].s /\ ret.align = firstAlloc[1].a)
    => ret.ptr = firstAlloc[1].p

\* The step is a zarena_realloc of a non-null old_ptr to a larger size.
GrowingRealloc ==
    /\ aops' = aops + 1 /\ fault' = "none"
    /\ ret'.op = "realloc" /\ ret'.old_ptr # NULL /\ ret'.size > ret'.old_size

\* C4: zarena_realloc(old_ptr, old_size, new_size > old_size): if old_ptr + old_size
\* is the head block's data start plus used, and used + (new_size - old_size) <=
\* capacity, it returns old_ptr and only advances used by the difference; otherwise
\* it returns a region as zarena_alloc(new_size) does, disjoint from the old one,
\* whose first old_size bytes are the old region's.
C4_ReallocPaths ==
    [][GrowingRealloc =>
        LET old_ptr  == ret'.old_ptr
            old_size == ret'.old_size
            new_size == ret'.size
        IN  IF /\ a.head # NULL
               /\ old_ptr + old_size = Data(a.head) + blk[a.head].used
               /\ blk[a.head].used + (new_size - old_size) <= blk[a.head].capacity
            THEN /\ ret'.ptr = old_ptr
                 /\ blk' = [blk EXCEPT ![a.head].used = @ + (new_size - old_size)]
                 /\ a'.head = a.head /\ a'.first = a.first
                 /\ mem' = mem /\ heap' = heap
            ELSE \E m \in BackendAnswers(a, blk, heap, new_size, ZARENA_MAX_ALIGN) :
                   LET r == zarena_alloc(a, blk, heap, new_size, m) IN
                   /\ ret'.ptr = r.ptr /\ a' = r.a /\ blk' = r.blk
                   /\ r.ptr # NULL =>
                        /\ Disjoint([p |-> r.ptr, size |-> new_size],
                                    [p |-> old_ptr, size |-> old_size])
                        /\ \A x \in DOMAIN mem :
                             (old_ptr <= x /\ x < old_ptr + old_size) =>
                                /\ r.ptr + (x - old_ptr) \in DOMAIN mem'
                                /\ mem'[r.ptr + (x - old_ptr)] = mem[x]
    ]_vars

\* The step is an arena call that asked the backend for a block and got none.
BackendRefused ==
    /\ aops' = aops + 1
    /\ nmalloc' = nmalloc + 1
    /\ heap' = heap

\* C11: when the backend fails to supply a new block, zarena_alloc_align,
\* zarena_alloc, zarena_alloc_zero and zarena_realloc's copy path return null and
\* leave the arena as it was: first, head, the links, every used cursor and
\* total_alloc are unchanged, and the regions returned before stay valid.
C11_BackendFailureKeeps ==
    [][BackendRefused => /\ ret'.ptr = NULL
                         /\ fault' = "none"
                         /\ a' = a
                         /\ blk' = blk
                         /\ mem' = mem
                         /\ regions' = regions
                         /\ created' = created]_vars

\* A grown region could not be moved: the arena still has its block and regions.
C11_Witness ==
    /\ fault = "none"
    /\ ret.op = "realloc" /\ ret.path = "copy" /\ ret.ptr = NULL
    /\ ret.old_ptr # NULL
    /\ nmalloc = 2
    /\ Len(regions) = 1
    /\ a.head # NULL /\ blk[a.head].used > 0

\* The blocks met walking next from first, one step more than there are blocks.
Walk == Chain(blk, a.first, Cardinality(DOMAIN blk) + 1)

\* C14: head is reachable from first along the next links (both are null when
\* the arena is empty), and the chain from first is finite and acyclic: the
\* walk meets no block twice and ends at a null next.
C14_HeadReachable ==
    fault = "none" =>
        /\ (a.first = NULL) <=> (a.head = NULL)
        /\ a.head # NULL => \E i \in 1 .. Len(Walk) : Walk[i] = a.head
        /\ \A i, j \in 1 .. Len(Walk) : i < j => Walk[i] # Walk[j]
        /\ \A i \in 1 .. Len(Walk) : blk[Walk[i]].next \in DOMAIN blk \cup {NULL}
        /\ Len(Walk) > 0 => blk[Walk[Len(Walk)]].next = NULL

\* After a reset the arena moved on to the second of its three blocks.
C14_Witness ==
    /\ fault = "none"
    /\ ret.path = "advance"
    /\ Len(Walk) = 3
    /\ a.head = Walk[2]
    /\ a.first = Walk[1]

\* C15 as stated: the capacities of the arena's blocks, taken in the order the
\* blocks were obtained from the backend, are non-decreasing, for any sequence
\* of allocations and resets.
C15_CapacitiesNonDecreasing ==
    fault = "none" =>
        \A i, j \in 1 .. Len(created) :
            i < j => created[i].capacity <= created[j].capacity

\* The step obtained a block from the backend.
BlockCreated == Len(created') = Len(created) + 1

\* C15, amended: a block obtained from the backend has at least twice the
\* capacity of the block that is head when it is created (at least
\* ZARENA_DEFAULT_BLOCK_SIZE when the arena has none); when no zarena_reset was
\* called since the last init or free, its capacity is at least that of every
\* block created before it.
C15_CapacityDoublesFromHead ==
    [][BlockCreated =>
         LET new == created'[Len(created')] IN
         /\ a.head # NULL => new.capacity >= 2 * blk[a.head].capacity
         /\ a.head = NULL => new.capacity >= ZARENA_DEFAULT_BLOCK_SIZE
         /\ ~wasReset => \A i \in 1 .. Len(created) :
                            created[i].capacity <= new.capacity]_vars

\* After a reset, a block was created smaller than the one created before it.
C15_Witness ==
    /\ fault = "none"
    /\ wasReset
    /\ Len(created) = 4
    /\ created[4].capacity < created[3].capacity
    /\ created[4].b = a.head

\* The step is a zarena_alloc_align(size > 0, align), direct or through
\* zarena_alloc, that finds the request not fitting in head, and head has a next.
HeadFullWithNext ==
    /\ aops' = aops + 1
    /\ ret'.op \in {"alloc_align", "alloc"}
    /\ ret'.size > 0
    /\ a.head # NULL
    /\ LET curr    == W(Data(a.head) + blk[a.head].used)
           padding == W(_zarena_align_ptr(curr, ret'.align) - curr)
       IN  W(blk[a.head].used + W(ret'.size + padding)) > blk[a.head].capacity
    /\ blk[a.head].next # NULL

\* C16 as stated: whenever zarena_alloc_align(size > 0, align) finds that the
\* request does not fit in head and head has a next block, the next block
\* becomes head, its cursor is set to the aligned start plus size, the aligned
\* start is returned and the backend is not called.
C16_AlwaysAdvances ==
    [][HeadFullWithNext =>
         LET next_blk == blk[a.head].next
             start    == _zarena_align_ptr(Data(next_blk), ret'.align)
         IN  /\ a'.head = next_blk
             /\ blk'[next_blk].used = (start - Data(next_blk)) + ret'.size
             /\ ret'.ptr = start
             /\ nmalloc' = nmalloc
             /\ heap' = heap]_vars

\* C16, amended: in that case the call advances only if size plus the padding
\* of the next block's data start, computed in size_t, is at most the next
\* block's capacity: the next block becomes head, its cursor is that sum, the
\* aligned start is returned and the backend is not called. Otherwise the
\* backend is asked for a new block, which on success is linked between head and
\* the next block and becomes head; on failure nothing changes.
C16_AdvancesWhenNextFits ==
    [][HeadFullWithNext =>
         LET next_blk == blk[a.head].next
             start    == _zarena_align_ptr(Data(next_blk), ret'.align)
             sum      == W(ret'.size + W(start - Data(next_blk)))
         IN  IF sum <= blk[next_blk].capacity
             THEN /\ a' = [a EXCEPT !.head = next_blk, !.total_alloc = W(@ + ret'.size)]
                  /\ blk' = [blk EXCEPT ![next_blk].used = sum]
                  /\ ret'.ptr = start
                  /\ nmalloc' = nmalloc
                  /\ heap' = heap
             ELSE /\ nmalloc' = nmalloc + 1
                  /\ \/ ret'.ptr = NULL /\ a' = a /\ blk' = blk /\ heap' = heap
                     \/ /\ ret'.ptr # NULL
                        /\ a'.head \notin DOMAIN blk
                        /\ a'.head \in DOMAIN heap' \ DOMAIN heap
                        /\ blk'[a.head].next = a'.head
                        /\ blk'[a'.head].next = next_blk]_vars

\* After a reset, a request too large for the first block was served by the second.
C16_Witness ==
    /\ fault = "none"
    /\ ret.op = "alloc" /\ ret.prev = "reset" /\ ret.path = "advance"
    /\ a.head = blk[a.first].next
    /\ ret.ptr = _zarena_align_ptr(Data(a.head), ret.align)
    /\ blk[a.head].used = ret.size + (ret.ptr - Data(a.head))
    /\ blk[a.first].used = 0

Max(x, y) == IF x < y THEN y ELSE x

\* C17: when zarena_alloc_align creates a block, its capacity is
\* max(2 * capacity of head, size + align), or max(ZARENA_DEFAULT_BLOCK_SIZE,
\* size + align) when the arena has no block; the block is linked right after
\* the old head (its next is the old head's former next), it becomes head, and
\* first changes only when the arena was empty.
C17_NewBlockCapacity ==
    [][BlockCreated =>
         LET b    == a'.head
             need == ret'.size + ret'.align
         IN  /\ b \notin DOMAIN blk
             /\ a.head # NULL => /\ blk'[b].capacity = Max(2 * blk[a.head].capacity, need)
                                 /\ blk'[b].next = blk[a.head].next
                                 /\ blk'[a.head].next = b
                                 /\ a'.first = a.first
             /\ a.head = NULL => /\ blk'[b].capacity = Max(ZARENA_DEFAULT_BLOCK_SIZE, need)
                                 /\ blk'[b].next = NULL
                                 /\ a'.first = b]_vars

\* The step is a zarena_reset.
ResetStep == aops' = aops + 1 /\ ret'.op = "reset"

\* C18: zarena_reset sets used to 0 in every block of the chain, head to first
\* and total_alloc to 0, and leaves everything else unchanged: no backend
\* allocate or release, and the same blocks, in the same order, with the same
\* capacities and the same first.
C18_ResetFrame ==
    [][ResetStep =>
         /\ \A i \in 1 .. Len(Walk) :
               blk'[Walk[i]] = [blk[Walk[i]] EXCEPT !.used = 0]
         /\ DOMAIN blk' = DOMAIN blk
         /\ \A b \in DOMAIN blk : (\A i \in 1 .. Len(Walk) : Walk[i] # b) => blk'[b] = blk[b]
         /\ Walk' = Walk
         /\ a'.head = a.first
         /\ a'.first = a.first
         /\ a'.total_alloc = 0
         /\ heap' = heap /\ mem' = mem
         /\ nmalloc' = nmalloc /\ nfree' = nfree
         /\ created' = created]_vars

\* A chain of three used blocks has just been reset.
C18_Witness ==
    /\ fault = "none"
    /\ ret.op = "reset" /\ ret.prev \in {"alloc", "alloc_align", "realloc"}
    /\ Len(Walk) = 3
    /\ Len(created) = 3
    /\ a.head = a.first
    /\ \A i \in 1 .. 3 : blk[Walk[i]].used = 0
    /\ DOMAIN heap = {Walk[i] : i \in 1 .. 3}

\* The step is a zarena_free.
FreeStep == aops' = aops + 1 /\ ret'.op = "free"

\* The blocks obtained from the backend since the last init or free.
Obtained == {created[i].b : i \in 1 .. Len(created)}

\* C19: zarena_free calls the backend release exactly once for every block
\* obtained from the backend since the last init or free (none leaked, none
\* released twice) and leaves head = first = null and total_alloc = 0, the state
\* of a freshly-initialized arena.
C19_FreeReleasesAll ==
    [][FreeStep =>
         /\ Cardinality(Obtained) = Len(created)
         /\ Obtained \subseteq DOMAIN heap
         /\ DOMAIN heap' = DOMAIN heap \ Obtained
         /\ \A c \in DOMAIN heap' : heap'[c] = heap[c]
         /\ nfree' - nfree = Len(created)
         /\ a' = [head |-> NULL, first |-> NULL, total_alloc |-> 0]
         /\ DOMAIN blk' \cap Obtained = {}]_vars

\* Three blocks, used, reset, then all released by zarena_free.
C19_Witness ==
    /\ fault = "none"
    /\ ret.op = "free" /\ ret.prev = "reset"
    /\ nmalloc = 3 /\ nfree = 3
    /\ DOMAIN heap = {}
    /\ a.head = NULL /\ a.first = NULL /\ a.total_alloc = 0

\* The requested sizes of the regions rs, added up.
RECURSIVE SumSizes(_)
SumSizes(rs) == IF rs = << >> THEN 0 ELSE rs[1].size + SumSizes(Tail(rs))

\* C20 as stated: after any sequence of alloc, alloc_align, alloc_zero and
\* realloc calls since the last init, reset or free, total_alloc is the sum of
\* the requested sizes of the regions the caller still holds, each counted once
\* at its latest requested size, a region replaced by realloc's copy path no
\* longer counted, alignment padding never included.
C20_TotalIsLiveBytes ==
    fault = "none" => a.total_alloc = SumSizes(regions)

\* C20, amended: total_alloc is, in size_t arithmetic, the sum of the sizes of
\* the successful allocations made since the last init, reset or free
\* (zarena_realloc's copy path included) plus the differences of its in-place
\* growths; a shrinking zarena_realloc and the region a copy replaced take
\* nothing off it, and alignment padding is never included.
C20_TotalIsRequestedBytes ==
    fault = "none" => a.total_alloc = W(counted)

\* A region of 16 bytes was moved by zarena_realloc to one of 4090: both counted.
C20_Witness ==
    /\ fault = "none"
    /\ ret.op = "realloc" /\ ret.path = "copy" /\ ret.ptr # NULL
    /\ ret.old_size = 16 /\ ret.size = 4090
    /\ Len(regions) = 1 /\ regions[1].size = 4090
    /\ a.total_alloc = 16 + 4090
    /\ blk[a.head].used > 4090

\* The step is a zarena_alloc_align that repeats, after the zarena_reset, the
\* next call of the run made on the fresh arena, in which the backend refused
\* nothing.
ReplayStep ==
    /\ aops' = aops + 1
    /\ replay.mode = "again"
    /\ replay'.mode = "again"
    /\ replay'.at = replay.at + 1
    /\ \A i \in 1 .. Len(run1) : ~run1[i].refused

\* C25: when a sequence of zarena_alloc_align calls is made on a
\* freshly-initialized arena, zarena_reset is called and the same sequence is
\* repeated, the repeated run makes no backend allocation call and returns,
\* call for call, the addresses of the first run.
C25_ReplaySame ==
    [][ReplayStep => /\ ret'.ptr = run1[replay'.at].ptr
                     /\ nmalloc' = nmalloc
                     /\ heap' = heap]_vars

\* ------------------------------------------------------------------- pool
\* sizeof(void*), sizeof(zpool_node*)
PtrSize == 8
\* count_per_block when the caller gives items_per_block < 1
PoolDefaultCount == 64
\* block_cap after the first growth of the slab-tracking array
PoolFirstCap == 8

\* Number of pool calls in one run.
MaxPoolOps == 6
\* Number of calls in a run that only initialises and allocates.
MaxPoolGrowOps == 11
\* The backend answers the pool with one of the PoolMallocChoices lowest free chunks.
PoolMallocChoices == 1

\* realloc(ptr, n): NULL (ptr stays), ptr itself when the bytes fit where it is,
\* or a free chunk (ptr is released); malloc(n) when ptr is NULL.
Z_REALLOC(hp, ptr, n, choices) ==
    IF ptr = NULL THEN Z_MALLOC(hp, n, choices)
    ELSE Z_MALLOC(hp, n, choices)
         \cup {x \in {ptr} : ChunkFree(HeapDel(hp, {ptr}), ptr, n)}

\* The heap after realloc(ptr, n) answered m.
HeapRealloc(hp, ptr, n, m) ==
    IF m = NULL THEN hp ELSE HeapPut(HeapDel(hp, {ptr}), m, n)

PoolZero ==
    [item_size |-> 0, count_per_block |-> 0, head |-> NULL, blocks |-> NULL,
     block_count |-> 0, block_cap |-> 0]

\* zpool_init: the item size is raised to a pointer's and rounded up to a
\* multiple of it, an items_per_block below 1 becomes 64.
zpool_init(item_size, items_per_block) ==
    LET align == PtrSize
        sz    == IF item_size < PtrSize THEN PtrSize ELSE item_size
        t     == W(sz + (align - 1))
    IN  [PoolZero EXCEPT !.item_size = t - (t % align),
                         !.count_per_block = IF items_per_block < 1 THEN PoolDefaultCount
                                             ELSE items_per_block]

\* The address of item i of the slab at block.
ItemAt(pl, block, i) == W(block + W(i * pl.item_size))

\* The bytes _zpool_grow asks the backend for: one slab, and the grown array.
SlabBytes(pl) == W(pl.item_size * pl.count_per_block)
NewCap(pl) == IF pl.block_cap = 0 THEN PoolFirstCap ELSE W(pl.block_cap * 2)
ArrayBytes(pl) == W(NewCap(pl) * PtrSize)

\* SlabLinked whose linking loop is left out: only the slab's first item
\* reaches the free list.
SlabLinked_first_only(pl, arr, nx, hp, m1, m2) ==
    LET block == m1
        hp1   == HeapPut(hp, block, SlabBytes(pl))
        grows == pl.block_count = pl.block_cap
        hp2   == IF grows THEN HeapRealloc(hp1, pl.blocks, ArrayBytes(pl), m2) ELSE hp1
        pl1   == IF grows THEN [pl EXCEPT !.blocks = m2, !.block_cap = NewCap(pl)] ELSE pl
    IN  [pool  |-> [pl1 EXCEPT !.block_count = @ + 1, !.head = block],
         parr  |-> Append(arr, block),
         pnext |-> [x \in DOMAIN nx \cup {block} |-> IF x = block THEN pl.head ELSE nx[x]],
         heap  |-> hp2,
         slab  |-> TRUE, released |-> FALSE]

\* _zpool_grow once both backend answers are in hand: the slab is tracked (the
\* array grown first if it is full) and its items are linked in front of the free list.
SlabLinked(pl, arr, nx, hp, m1, m2) ==
    LET block == m1
        hp1   == HeapPut(hp, block, SlabBytes(pl))
        grows == pl.block_count = pl.block_cap
        hp2   == IF grows THEN HeapRealloc(hp1, pl.blocks, ArrayBytes(pl), m2) ELSE hp1
        pl1   == IF grows THEN [pl EXCEPT !.blocks = m2, !.block_cap = NewCap(pl)] ELSE pl
        n     == pl.count_per_block
        last  == ItemAt(pl, block, n - 1)
        linked == {ItemAt(pl, block, i) : i \in 0 .. (n - 1)}
        nx1   == [x \in DOMAIN nx \cup linked |->
                    IF x = last THEN pl.head
                    ELSE IF x \in linked
                         THEN W(x + pl.item_size)
                         ELSE nx[x]]
    IN  [pool  |-> [pl1 EXCEPT !.block_count = @ + 1, !.head = block],
         parr  |-> Append(arr, block),
         pnext |-> nx1,
         heap  |-> hp2,
         slab  |-> TRUE, released |-> FALSE]

\* _zpool_grow without "Z_FREE(block)" when the array cannot grow: the slab stays
\* allocated and nothing tracks it.
_zpool_grow_leaks(pl, arr, nx, hp, m1, m2) ==
    LET same == [pool |-> pl, parr |-> arr, pnext |-> nx, heap |-> hp,
                 slab |-> m1 # NULL, released |-> FALSE]
    IN
    IF m1 = NULL THEN same
    ELSE IF pl.block_count = pl.block_cap /\ m2 = NULL
    THEN [same EXCEPT !.heap = HeapPut(hp, m1, SlabBytes(pl))]
    ELSE SlabLinked(pl, arr, nx, hp, m1, m2)

\* _zpool_grow on pool pl, tracked slabs arr, links nx and heap hp: m1 is the
\* backend's answer for the slab, m2 its answer for the array when it must grow.
_zpool_grow(pl, arr, nx, hp, m1, m2) ==
    LET same == [pool |-> pl, parr |-> arr, pnext |-> nx, heap |-> hp,
                 slab |-> m1 # NULL, released |-> FALSE]
    IN
    IF m1 = NULL THEN same
    ELSE IF pl.block_count = pl.block_cap /\ m2 = NULL THEN [same EXCEPT !.released = TRUE]
    ELSE SlabLinked(pl, arr, nx, hp, m1, m2)

\* zpool_alloc with "p->head = NULL" in place of "p->head = node->next": the rest of
\* the free list is dropped.
zpool_alloc_drops_list(pl, arr, nx, hp, m1, m2) ==
    LET g == IF pl.head = NULL THEN _zpool_grow(pl, arr, nx, hp, m1, m2)
             ELSE [pool |-> pl, parr |-> arr, pnext |-> nx, heap |-> hp,
                   slab |-> FALSE, released |-> FALSE]
        asked == pl.head = NULL
    IN  IF g.pool.head = NULL
        THEN g @@ [ptr |-> NULL, asked |-> asked]
        ELSE [g EXCEPT !.pool.head = NULL] @@ [ptr |-> g.pool.head, asked |-> asked]

\* zpool_alloc: grow when the free list is empty, then pop its head.
zpool_alloc(pl, arr, nx, hp, m1, m2) ==
    LET g == IF pl.head = NULL THEN _zpool_grow(pl, arr, nx, hp, m1, m2)
             ELSE [pool |-> pl, parr |-> arr, pnext |-> nx, heap |-> hp,
                   slab |-> FALSE, released |-> FALSE]
        asked == pl.head = NULL
    IN  IF g.pool.head = NULL
        THEN g @@ [ptr |-> NULL, asked |-> asked]
        ELSE LET node == g.pool.head IN
             [g EXCEPT !.pool.head = g.pnext[node]] @@ [ptr |-> node, asked |-> asked]

\* zpool_recycle without "p->head = node": the node is linked but never pushed.
zpool_recycle_unpushed(pl, nx, ptr) ==
    IF ptr = NULL THEN [pool |-> pl, pnext |-> nx]
    ELSE [pool  |-> pl,
          pnext |-> [x \in DOMAIN nx \cup {ptr} |-> IF x = ptr THEN pl.head ELSE nx[x]]]

\* zpool_recycle: push ptr on the free list; a null ptr changes nothing.
zpool_recycle(pl, nx, ptr) ==
    IF ptr = NULL THEN [pool |-> pl, pnext |-> nx]
    ELSE [pool  |-> [pl EXCEPT !.head = ptr],
          pnext |-> [x \in DOMAIN nx \cup {ptr} |-> IF x = ptr THEN pl.head ELSE nx[x]]]

\* zpool_free without "if (p->blocks) Z_FREE(p->blocks)".
zpool_free_keeps_array(pl, arr, hp) ==
    LET slabs == {arr[i] : i \in 1 .. pl.block_count} IN
    [pool |-> PoolZero,
     heap |-> HeapDel(hp, slabs),
     nslabs |-> pl.block_count,
     narr |-> 0]

\* zpool_free: every tracked slab and the array go back to the backend.
zpool_free(pl, arr, hp) ==
    LET slabs == {arr[i] : i \in 1 .. pl.block_count} IN
    [pool |-> PoolZero,
     heap |-> HeapDel(hp, slabs \cup (IF pl.blocks # NULL THEN {pl.blocks} ELSE {})),
     nslabs |-> pl.block_count,
     narr |-> IF pl.blocks # NULL THEN 1 ELSE 0]

PoolInitState ==
    /\ pool = PoolZero
    /\ parr = << >>
    /\ pnext = EmptyMap
    /\ pheld = << >>
    /\ pret = [op |-> "none", prev |-> "none", arg |-> NULL, prev_arg |-> NULL,
               ptr |-> NULL, asked |-> FALSE]
    /\ phist = [slabs |-> 0, released |-> 0, recycled |-> FALSE, failed |-> FALSE,
                misused |-> FALSE]
    /\ pops = 0

\* ----------------------------------------------------------- pool: calls
\* item_size and items_per_block given to zpool_init.
PoolItemSizes == {1, 12, 24}
PoolItemCounts == {0, 1, 2, 3}
\* The address of a buffer of the caller's own, outside every slab, which a
\* careless caller may recycle.
ForeignPtr == 64

PoolFrame == UNCHANGED <<mem, arenaVars, guardVars, threadVars>>

PoolCall(n) == pops < n /\ fault = "none"

PoolReturned(op, arg, ptr, asked) ==
    /\ pret' = [op |-> op, prev |-> pret.op, arg |-> arg, prev_arg |-> pret.arg,
                ptr |-> ptr, asked |-> asked]
    /\ pops' = pops + 1

\* zpool_init on a pool that holds nothing (never initialised, or freed).
PoolInit(n) ==
    /\ PoolCall(n)
    /\ pool.count_per_block = 0
    /\ \E item_size \in PoolItemSizes, items_per_block \in PoolItemCounts :
          pool' = zpool_init(item_size, items_per_block)
    /\ parr' = << >>
    /\ pnext' = EmptyMap
    /\ pheld' = << >>
    /\ phist' = [slabs |-> 0, released |-> 0, recycled |-> FALSE, failed |-> FALSE,
                 misused |-> FALSE]
    /\ PoolReturned("init", NULL, NULL, FALSE)
    /\ UNCHANGED <<fault, heap>>
    /\ PoolFrame

\* What the backend may answer to _zpool_grow's two requests.
SlabAnswers(pl, hp) ==
    IF pl.head = NULL THEN Z_MALLOC(hp, SlabBytes(pl), PoolMallocChoices) ELSE {NULL}

ArrayAnswers(pl, hp, m1) ==
    IF pl.head = NULL /\ m1 # NULL /\ pl.block_count = pl.block_cap
    THEN Z_REALLOC(HeapPut(hp, m1, SlabBytes(pl)), pl.blocks, ArrayBytes(pl), PoolMallocChoices)
    ELSE {NULL}

PoolAlloc(n) ==
    /\ PoolCall(n)
    /\ pool.count_per_block > 0
    /\ \E m1 \in SlabAnswers(pool, heap) :
       \E m2 \in ArrayAnswers(pool, heap, m1) :
          LET r == zpool_alloc(pool, parr, pnext, heap, m1, m2) IN
          /\ pool' = r.pool /\ parr' = r.parr /\ pnext' = r.pnext /\ heap' = r.heap
          /\ pheld' = IF r.ptr # NULL THEN Append(pheld, r.ptr) ELSE pheld
          /\ phist' = [phist EXCEPT !.slabs = @ + (IF r.slab THEN 1 ELSE 0),
                                    !.released = @ + (IF r.released THEN 1 ELSE 0),
                                    !.failed = @ \/ r.ptr = NULL]
          /\ PoolReturned("alloc", NULL, r.ptr, r.asked)
    /\ UNCHANGED fault
    /\ PoolFrame

\* The pointers given to zpool_recycle: an item the caller holds, NULL, and (the
\* caller's fault) the item at the head of the free list or a foreign address.
RecycleArgs ==
    {pheld[i] : i \in 1 .. Len(pheld)} \cup {NULL, ForeignPtr}
        \cup (IF pool.head # NULL THEN {pool.head} ELSE {})

Holds(ptr) == \E i \in 1 .. Len(pheld) : pheld[i] = ptr

\* pheld without its first occurrence of ptr.
Unhold(ptr) ==
    IF ~Holds(ptr) THEN pheld
    ELSE LET i == CHOOSE k \in 1 .. Len(pheld) :
                     pheld[k] = ptr /\ \A j \in 1 .. (k - 1) : pheld[j] # ptr
         IN  SubSeq(pheld, 1, i - 1) \o SubSeq(pheld, i + 1, Len(pheld))

PoolRecycle(n) ==
    /\ PoolCall(n)
    /\ pool.count_per_block > 0
    /\ \E ptr \in RecycleArgs :
          LET r == zpool_recycle(pool, pnext, ptr) IN
          /\ pool' = r.pool /\ pnext' = r.pnext
          /\ pheld' = Unhold(ptr)
          /\ phist' = [phist EXCEPT !.recycled = TRUE,
                                    !.misused = @ \/ (ptr # NULL /\ ~Holds(ptr))]
          /\ PoolReturned("recycle", ptr, NULL, FALSE)
    /\ UNCHANGED <<fault, heap, parr>>
    /\ PoolFrame

PoolFree(n) ==
    /\ PoolCall(n)
    /\ pool.count_per_block > 0
    /\ LET r == zpool_free(pool, parr, heap) IN
          /\ pool' = r.pool /\ heap' = r.heap
          /\ phist' = [phist EXCEPT !.released = @ + r.nslabs]
    /\ parr' = << >>
    /\ pnext' = EmptyMap
    /\ pheld' = << >>
    /\ PoolReturned("free", NULL, NULL, FALSE)
    /\ UNCHANGED fault
    /\ PoolFrame

PoolNext ==
    \/ PoolInit(MaxPoolOps)
    \/ PoolAlloc(MaxPoolOps)
    \/ PoolRecycle(MaxPoolOps)
    \/ PoolFree(MaxPoolOps)

\* A pool that is only initialised and allocated from, for long runs of allocations.
PoolGrowNext ==
    \/ PoolInit(MaxPoolGrowOps)
    \/ PoolAlloc(MaxPoolGrowOps)

\* C5: zpool_recycle(p) with a non-null p followed immediately by zpool_alloc()
\* returns p and performs no backend allocation, in any pool state; so alloc,
\* recycle of that pointer, alloc returns the first address again (LIFO reuse).
C5_RecycleThenAlloc ==
    (fault = "none" /\ pret.op = "alloc" /\ pret.prev = "recycle" /\ pret.prev_arg # NULL)
        => (pret.ptr = pret.prev_arg /\ ~pret.asked)

C5_Witness ==
    /\ pret.op = "alloc" /\ pret.prev = "recycle" /\ pret.prev_arg # NULL
    /\ pret.ptr = pret.prev_arg
    /\ ~phist.misused
    /\ phist.slabs = 1
    /\ Len(pheld) = 2

\* The items the caller holds, as regions of item_size bytes.
ItemRegion(i) == [p |-> pheld[i], size |-> pool.item_size]

CeilDiv(n, c) == (n + c - 1) \div c

\* C6: on a freshly initialised pool with items_per_block = c, N consecutive
\* successful zpool_alloc() calls with no recycle in between and no backend
\* failure perform exactly ceil(N / c) slab allocations, and the N returned
\* regions [p, p + item_size) are pairwise distinct and do not overlap.
C6_SlabCount ==
    (fault = "none" /\ pool.count_per_block > 0 /\ ~phist.recycled /\ ~phist.failed)
        => /\ phist.slabs = CeilDiv(Len(pheld), pool.count_per_block)
           /\ Cardinality(DOMAIN heap) = phist.slabs + (IF phist.slabs > 0 THEN 1 ELSE 0)
           /\ \A i, j \in 1 .. Len(pheld) :
                 i < j => Disjoint(ItemRegion(i), ItemRegion(j))

\* Ten items from slabs of one item: the tracking array has grown twice.
C6_Witness ==
    /\ ~phist.recycled /\ ~phist.failed
    /\ pool.count_per_block = 1
    /\ Len(pheld) = 10
    /\ phist.slabs = 10
    /\ pool.block_cap = 2 * PoolFirstCap

\* The step is a zpool_alloc that had to grow the pool and returned null.
GrowFails ==
    /\ pops' = pops + 1
    /\ pret'.op = "alloc"
    /\ pret'.asked
    /\ pret'.ptr = NULL

\* C12: when zpool_alloc must grow and the slab allocation or the growth of the
\* slab-tracking array fails, it returns null and head, block_count, block_cap,
\* the tracked slab pointers, item_size and count_per_block are unchanged; a slab
\* obtained before the array failed to grow is released exactly once.
C12_GrowFailureKeeps ==
    [][GrowFails => /\ pool' = pool
                    /\ parr' = parr
                    /\ pnext' = pnext
                    /\ pheld' = pheld
                    /\ heap' = heap
                    /\ phist'.slabs - phist.slabs \in {0, 1}
                    /\ phist'.released - phist.released = phist'.slabs - phist.slabs]_vars

\* The array, full with PoolFirstCap slabs, could not be doubled for the next slab.
C12_Witness ==
    /\ fault = "none"
    /\ pret.op = "alloc" /\ pret.asked /\ pret.ptr = NULL
    /\ pool.block_count = PoolFirstCap
    /\ pool.block_cap = PoolFirstCap
    /\ Len(parr) = PoolFirstCap
    /\ phist.slabs = PoolFirstCap + 1
    /\ phist.released = 1

\* The items met walking next from p, at most fuel of them.
RECURSIVE FreeWalk(_, _, _)
FreeWalk(nx, p, fuel) ==
    IF p = NULL \/ fuel = 0 \/ p \notin DOMAIN nx THEN << >>
    ELSE <<p>> \o FreeWalk(nx, nx[p], fuel - 1)

\* The item slots of the tracked slabs: slab base + i * item_size.
Slots ==
    {parr[k] + i * pool.item_size : k \in 1 .. Len(parr), i \in 0 .. (pool.count_per_block - 1)}

\* The free list from head, walked one step further than there are slots.
FreeList == FreeWalk(pnext, pool.head, Cardinality(Slots) + 1)
HeldSet == {pheld[i] : i \in 1 .. Len(pheld)}

\* C21: as long as zpool_recycle is only given pointers this pool's zpool_alloc
\* returned and that were not recycled since, the items on the free list and the
\* items held by callers are disjoint and together are exactly the item slots
\* of the tracked slabs; the free list is acyclic and ends at null, holds no
\* address outside a tracked slab, and no held address is held twice.
C21_FreeListPartition ==
    (fault = "none" /\ ~phist.misused) =>
        LET fl    == FreeList
            free  == {fl[i] : i \in 1 .. Len(fl)}
            held  == HeldSet
            slots == Slots
        IN  /\ free \cap held = {}
            /\ free \cup held = slots
            /\ Cardinality(free) = Len(fl)
            /\ Len(fl) > 0 => pnext[fl[Len(fl)]] = NULL
            /\ Cardinality(held) = Len(pheld)
            /\ Cardinality(slots) = Len(parr) * pool.count_per_block
            /\ \A k \in 1 .. Len(parr) :
                  /\ parr[k] \in DOMAIN heap
                  /\ pool.count_per_block * pool.item_size <= heap[parr[k]]

\* Two slabs of two items: two items held, and on the free list a recycled item
\* of the first slab in front of the unused item of the second.
C21_Witness ==
    /\ fault = "none" /\ ~phist.misused
    /\ pret.op = "recycle" /\ pret.arg # NULL
    /\ Len(parr) = 2 /\ pool.count_per_block = 2
    /\ Len(pheld) = 2
    /\ Len(FreeList) = 2
    /\ FreeList[1] = parr[1]
    /\ FreeList[2] = parr[2] + pool.item_size

\* The chunks the pool has from the backend, the tracking array apart.
LiveSlabs == DOMAIN heap \ {pool.blocks}

\* blocks[0 .. block_count) holds exactly the slabs allocated and not released.
PoolTracked ==
    /\ pool.block_count <= pool.block_cap
    /\ Len(parr) = pool.block_count
    /\ {parr[i] : i \in 1 .. Len(parr)} = LiveSlabs
    /\ Cardinality(LiveSlabs) = pool.block_count
    /\ pool.block_cap > 0 <=> pool.blocks # NULL
    /\ pool.blocks # NULL => /\ pool.blocks \in DOMAIN heap
                             /\ heap[pool.blocks] = pool.block_cap * PtrSize

\* The step is a zpool_free.
PoolFreeStep == pops' = pops + 1 /\ pret'.op = "free"

\* C22: in every reachable pool state block_count <= block_cap and
\* blocks[0 .. block_count) holds exactly the slabs successfully allocated and
\* not yet released, each once; zpool_free releases each of those slabs once
\* and the tracking array once, and leaves the pool with no slabs, an empty free
\* list and block_count = block_cap = 0.
C22_SlabsTracked ==
    [][/\ PoolTracked'
       /\ PoolFreeStep =>
             /\ DOMAIN heap \ DOMAIN heap' = LiveSlabs \cup ({pool.blocks} \ {NULL})
             /\ DOMAIN heap' = {}
             /\ phist'.released - phist.released = pool.block_count
             /\ pool'.head = NULL /\ pool'.blocks = NULL
             /\ pool'.block_count = 0 /\ pool'.block_cap = 0]_vars

\* Three slabs and the array were released by zpool_free.
C22_Witness ==
    /\ fault = "none"
    /\ pret.op = "free"
    /\ ~phist.failed
    /\ phist.slabs = 3 /\ phist.released = 3
    /\ DOMAIN heap = {}
    /\ pool.block_count = 0 /\ pool.block_cap = 0 /\ pool.head = NULL

\* ------------------------------------------------------------ debug guard
\* The 32-bit magic values, as their high and low 16-bit halves:
\* 0x11223344 and 0xDEADDEAD.
ZDEBUG_MAGIC_ALIVE == <<4386, 13124>>
ZDEBUG_MAGIC_FREED == <<57005, 57005>>
ZDEBUG_CANARY_VAL == 187
ZDEBUG_CANARY_SIZE == 16
\* sizeof(zdebug_header): prev, next, file, size, line, magic
SizeofHeader == 40

\* Number of guard calls in one run.
MaxGuardOps == 4
\* The backend answers the guard with one of the GuardMallocChoices lowest free chunks.
GuardMallocChoices == 1
\* What a released header may read once the backend has written over it.
GarbageMagic == <<0, 0>>

\* (h + 1), and back
UserMem(h) == h + SizeofHeader
HeaderOf(ptr) == ptr - SizeofHeader

\* _zdebug_add on the headers hd and list head: h becomes the head of the list.
\* _zdebug_add without "if (g_zdebug_head) g_zdebug_head->prev = h": the old
\* head keeps a null prev.
_zdebug_add_no_back_link(hd, head, h) ==
    [hdr |-> [hd EXCEPT ![h].next = head, ![h].prev = NULL], head |-> h]

\* _zdebug_add: h is pushed at the front of the live list.
_zdebug_add(hd, head, h) ==
    LET hd1 == [hd EXCEPT ![h].next = head, ![h].prev = NULL]
        hd2 == IF head # NULL THEN [hd1 EXCEPT ![head].prev = h] ELSE hd1
    IN  [hdr |-> hd2, head |-> h]

\* _zdebug_remove without "else g_zdebug_head = h->next": the head is never moved.
_zdebug_remove_keeps_head(hd, head, h) ==
    LET prev == hd[h].prev
        next == hd[h].next
        hd1 == IF prev # NULL THEN [hd EXCEPT ![prev].next = next] ELSE hd
        hd2 == IF next # NULL THEN [hd1 EXCEPT ![next].prev = prev] ELSE hd1
    IN  [hdr |-> hd2, head |-> head]

\* _zdebug_remove: h's neighbours are linked to each other.
_zdebug_remove(hd, head, h) ==
    LET prev == hd[h].prev
        next == hd[h].next
        hd1 == IF prev # NULL THEN [hd EXCEPT ![prev].next = next] ELSE hd
        head1 == IF prev # NULL THEN head ELSE next
        hd2 == IF next # NULL THEN [hd1 EXCEPT ![next].prev = prev] ELSE hd1
    IN  [hdr |-> hd2, head |-> head1]

\* _zdebug_set_canary: 16 bytes of 0xBB after the payload of h.
_zdebug_set_canary(me, hd, h) ==
    MemSet(me, W(UserMem(h) + hd[h].size), ZDEBUG_CANARY_VAL, ZDEBUG_CANARY_SIZE)

\* _zdebug_check_canary that never looks at the footer.
_zdebug_check_canary_off(me, hd, h) == TRUE

\* _zdebug_check_canary with its loop starting at i = 1.
_zdebug_check_canary_from_1(me, hd, h) ==
    LET footer == W(UserMem(h) + hd[h].size) IN
    \A i \in 1 .. (ZDEBUG_CANARY_SIZE - 1) :
        (footer + i) \in DOMAIN me /\ me[footer + i] = ZDEBUG_CANARY_VAL

\* _zdebug_check_canary: every footer byte still holds 0xBB.
_zdebug_check_canary(me, hd, h) ==
    LET footer == W(UserMem(h) + hd[h].size) IN
    \A i \in 0 .. (ZDEBUG_CANARY_SIZE - 1) :
        (footer + i) \in DOMAIN me /\ me[footer + i] = ZDEBUG_CANARY_VAL

\* sizeof(zdebug_header) + size + ZDEBUG_CANARY_SIZE
TotalSize(size) == W(W(SizeofHeader + size) + ZDEBUG_CANARY_SIZE)

\* The bytes of me outside [lo, lo + n): what a released chunk held is gone.
MemDrop(me, lo, n) == [x \in {y \in DOMAIN me : y < lo \/ y >= lo + n} |-> me[x]]

\* The guard's state as the operators below transform it.
GuardState(hd, head, me, hp) == [hdr |-> hd, head |-> head, mem |-> me, heap |-> hp]

\* zdebug_malloc_loc; m is the backend's answer to malloc(total_size).
zdebug_malloc_loc(hd, head, me, hp, size, file, line, m) ==
    IF size = 0 \/ m = NULL
    THEN GuardState(hd, head, me, hp) @@ [ptr |-> NULL, fault |-> "none"]
    ELSE LET h   == m
             hd1 == [x \in DOMAIN hd \cup {h} |->
                       IF x = h
                       THEN [prev |-> NULL, next |-> NULL, file |-> file, line |-> line,
                             size |-> size, magic |-> ZDEBUG_MAGIC_ALIVE]
                       ELSE hd[x]]
             me1 == _zdebug_set_canary(me, hd1, h)
             l   == _zdebug_add(hd1, head, h)
         IN  GuardState(l.hdr, l.head, me1, HeapPut(hp, h, TotalSize(size)))
                 @@ [ptr |-> UserMem(h), fault |-> "none"]

\* zdebug_calloc_loc: zdebug_malloc_loc(count * size), then memset(ptr, 0, count * size).
zdebug_calloc_loc(hd, head, me, hp, count, size, file, line, m) ==
    LET r == zdebug_malloc_loc(hd, head, me, hp, W(count * size), file, line, m) IN
    IF r.ptr # NULL THEN [r EXCEPT !.mem = MemSet(r.mem, r.ptr, 0, W(count * size))] ELSE r

\* zdebug_free; magic is what h->magic reads.
zdebug_free(hd, head, me, hp, ptr, magic) ==
    LET h == HeaderOf(ptr)
        same == GuardState(hd, head, me, hp)
    IN
    IF ptr = NULL THEN same @@ [fault |-> "none", released |-> FALSE]
    ELSE IF magic # ZDEBUG_MAGIC_ALIVE
    THEN same @@ [fault |-> IF magic = ZDEBUG_MAGIC_FREED THEN "double_free" ELSE "invalid_free",
                  released |-> FALSE]
    ELSE IF ~_zdebug_check_canary(me, hd, h)
    THEN same @@ [fault |-> "buffer_overflow", released |-> FALSE]
    ELSE LET hd1 == [hd EXCEPT ![h].magic = ZDEBUG_MAGIC_FREED]
             l   == _zdebug_remove(hd1, head, h)
         IN  GuardState(l.hdr, l.head,
                        IF h \in DOMAIN hp THEN MemDrop(me, h, ChunkLen(hp[h])) ELSE me,
                        HeapDel(hp, {h}))
                 @@ [fault |-> "none", released |-> TRUE]

\* zdebug_realloc_loc's failure branch without "_zdebug_add(h)".
ReallocFailed_unlinked(hd, head, h) == [hdr |-> hd, head |-> head]

\* zdebug_realloc_loc when the backend's realloc returned null: h, unlinked
\* before the call, is linked again.
ReallocFailed(hd, head, h) == _zdebug_add(hd, head, h)

\* Resized without "_zdebug_set_canary(new_h)": the footer is left as realloc left it.
Resized_canary_unset(hd, head, me, hp, h, size, file, line, m) ==
    LET new_h == m
        old   == hd[h].size
        kept  == IF old < size THEN old ELSE size
        hd1   == [x \in DOMAIN hd \cup {new_h} |->
                    IF x = new_h
                    THEN [hd[h] EXCEPT !.size = size, !.file = file, !.line = line]
                    ELSE hd[x]]
        me1   == IF new_h = h THEN me
                 ELSE MemDrop(MemCpy(MemDrop(me, new_h, ChunkLen(TotalSize(size))),
                                     UserMem(new_h), UserMem(h), kept),
                              h, ChunkLen(hp[h]))
        back  == _zdebug_add(hd1, head, new_h)
    IN  GuardState(back.hdr, back.head, me1, HeapRealloc(hp, h, TotalSize(size), m))
            @@ [ptr |-> UserMem(new_h), fault |-> "none", released |-> FALSE,
                site |-> << >>]

\* zdebug_realloc_loc once the backend's realloc(h, total_size) has returned
\* m # NULL, h being unlinked already: the header and the payload are where the
\* chunk is now, size and origin are updated, the canary is written behind the
\* new size and the header is linked again.
Resized(hd, head, me, hp, h, size, file, line, m) ==
    LET new_h == m
        old   == hd[h].size
        kept  == IF old < size THEN old ELSE size
        \* realloc: the header and the payload move with the chunk
        hd1   == [x \in DOMAIN hd \cup {new_h} |->
                    IF x = new_h
                    THEN [hd[h] EXCEPT !.size = size, !.file = file, !.line = line]
                    ELSE hd[x]]
        me1   == IF new_h = h THEN me
                 ELSE MemDrop(MemCpy(MemDrop(me, new_h, ChunkLen(TotalSize(size))),
                                     UserMem(new_h), UserMem(h), kept),
                              h, ChunkLen(hp[h]))
        me2   == _zdebug_set_canary(me1, hd1, new_h)
        back  == _zdebug_add(hd1, head, new_h)
    IN  GuardState(back.hdr, back.head, me2, HeapRealloc(hp, h, TotalSize(size), m))
            @@ [ptr |-> UserMem(new_h), fault |-> "none", released |-> FALSE,
                site |-> << >>]

\* zdebug_realloc_loc; magic is what h->magic reads, m the backend's answer to
\* malloc (null ptr) or realloc(h, total_size). site is the file and line that
\* zdebug_realloc_loc's own diagnostic prints, << >> when it prints none.
zdebug_realloc_loc(hd, head, me, hp, ptr, size, file, line, magic, m) ==
    LET h == HeaderOf(ptr)
        same == GuardState(hd, head, me, hp)
    IN
    IF ptr = NULL
    THEN zdebug_malloc_loc(hd, head, me, hp, size, file, line, m)
             @@ [released |-> FALSE, site |-> << >>]
    ELSE IF size = 0
    THEN zdebug_free(hd, head, me, hp, ptr, magic) @@ [ptr |-> NULL, site |-> << >>]
    ELSE IF magic # ZDEBUG_MAGIC_ALIVE
    THEN same @@ [ptr |-> NULL, fault |-> "bad_realloc", released |-> FALSE,
                  site |-> <<file, line>>]
    ELSE IF ~_zdebug_check_canary(me, hd, h)
    THEN same @@ [ptr |-> NULL, fault |-> "corruption", released |-> FALSE,
                  site |-> <<hd[h].file, hd[h].line>>]
    ELSE LET l == _zdebug_remove(hd, head, h) IN
         IF m = NULL
         THEN LET back == ReallocFailed(l.hdr, l.head, h) IN
              GuardState(back.hdr, back.head, me, hp)
                  @@ [ptr |-> NULL, fault |-> "none", released |-> FALSE, site |-> << >>]
         ELSE Resized(l.hdr, l.head, me, hp, h, size, file, line, m)

\* zdebug_print_leaks: the number of headers met walking next from the head;
\* fuel bounds the walk of a list that a violation has made cyclic.
RECURSIVE CountFrom(_, _, _)
CountFrom(hd, curr, fuel) ==
    IF curr = NULL \/ fuel = 0 THEN 0 ELSE 1 + CountFrom(hd, hd[curr].next, fuel - 1)

zdebug_print_leaks(hd, head) == CountFrom(hd, head, HeapSlots + 1)

\* The headers met walking next from the head, in order.
RECURSIVE ListFrom(_, _, _)
ListFrom(hd, curr, fuel) ==
    IF curr = NULL \/ fuel = 0 THEN << >> ELSE <<curr>> \o ListFrom(hd, hd[curr].next, fuel - 1)

LiveList(hd, head) == ListFrom(hd, head, HeapSlots + 1)

GuardInitState ==
    /\ g_zdebug_head = NULL
    /\ hdr = EmptyMap
    /\ glive = {}
    /\ greleased = {}
    /\ gviol = {}
    /\ gret = [op |-> "none", prev |-> "none", ptr |-> NULL, arg |-> NULL, prev_arg |-> NULL,
               size |-> 0, byte |-> 0, stale |-> FALSE, failed |-> FALSE, count |-> 0,
               magic |-> << >>, site |-> << >>]
    /\ gops = 0

\* ---------------------------------------------------------- guard: calls
\* Payload sizes asked of the guard, and the call sites that ask.
GuardSizes == {0, 1, 2}
GuardCounts == {0, 1, 2}
MallocSites == {<<"a.c", 10>>}
ReallocSites == {<<"b.c", 20>>}
\* The values a caller writes into a payload, or one byte past it.
GuardBytes == {90, ZDEBUG_CANARY_VAL}

GuardFrame == UNCHANGED <<arenaVars, poolVars, threadVars>>

GuardCall(n) == gops < n /\ fault = "none"

\* gret records the call made: magic is what it read in the header (<< >> when it
\* read none), site the file and line zdebug_realloc_loc's diagnostic printed.
GuardReturned(op, arg, size, ptr, byte, stale, failed, count, magic, site) ==
    /\ gret' = [op |-> op, prev |-> gret.op, ptr |-> ptr, arg |-> arg, prev_arg |-> gret.arg,
                size |-> size, byte |-> byte, stale |-> stale, failed |-> failed,
                count |-> count, magic |-> magic, site |-> site]
    /\ gops' = gops + 1

\* The state after a guard call that returned r.
GuardBecomes(r) ==
    /\ hdr' = r.hdr
    /\ g_zdebug_head' = r.head
    /\ mem' = r.mem
    /\ heap' = r.heap
    /\ fault' = r.fault

\* What h->magic may read: the header's own field while the chunk is allocated;
\* the field or anything else once the chunk has gone back to the backend.
HeaderMagics(hd, hp, ptr) ==
    LET h == HeaderOf(ptr) IN
    IF ptr = NULL THEN {GarbageMagic}
    ELSE IF h \in DOMAIN hp THEN {hd[h].magic}
    ELSE {hd[h].magic, GarbageMagic}

GuardMalloc(n) ==
    /\ GuardCall(n)
    /\ \E size \in GuardSizes, site \in MallocSites :
       \E m \in (IF size = 0 THEN {NULL}
                 ELSE Z_MALLOC(heap, TotalSize(size), GuardMallocChoices)) :
          LET r == zdebug_malloc_loc(hdr, g_zdebug_head, mem, heap, size, site[1], site[2], m) IN
          /\ GuardBecomes(r)
          /\ glive' = IF r.ptr # NULL THEN glive \cup {r.ptr} ELSE glive
          /\ GuardReturned("malloc", NULL, size, r.ptr, 0, FALSE, size # 0 /\ m = NULL, 0,
                           << >>, << >>)
    /\ UNCHANGED <<greleased, gviol>>
    /\ GuardFrame

GuardCalloc(n) ==
    /\ GuardCall(n)
    /\ \E count \in GuardCounts, size \in GuardSizes \ {0}, site \in MallocSites :
       \E m \in (IF W(count * size) = 0 THEN {NULL}
                 ELSE Z_MALLOC(heap, TotalSize(W(count * size)), GuardMallocChoices)) :
          LET r == zdebug_calloc_loc(hdr, g_zdebug_head, mem, heap, count, size,
                                     site[1], site[2], m)
          IN
          /\ GuardBecomes(r)
          /\ glive' = IF r.ptr # NULL THEN glive \cup {r.ptr} ELSE glive
          /\ GuardReturned("calloc", NULL, W(count * size), r.ptr, 0, FALSE,
                           W(count * size) # 0 /\ m = NULL, 0, << >>, << >>)
    /\ UNCHANGED <<greleased, gviol>>
    /\ GuardFrame

\* The pointers a caller passes: stale ones are those it has released already.
GuardArgs(stale) == IF stale THEN greleased ELSE glive \cup {NULL}

\* What the backend may answer to zdebug_realloc_loc(ptr, size).
GuardReallocAnswers(ptr, size, magic) ==
    IF size = 0 THEN {NULL}
    ELSE IF ptr = NULL THEN Z_MALLOC(heap, TotalSize(size), GuardMallocChoices)
    ELSE IF magic # ZDEBUG_MAGIC_ALIVE \/ ~_zdebug_check_canary(mem, hdr, HeaderOf(ptr))
    THEN {NULL}
    ELSE Z_REALLOC(heap, HeaderOf(ptr), TotalSize(size), GuardMallocChoices)

GuardRealloc(n) ==
    /\ GuardCall(n)
    /\ \E stale \in BOOLEAN, size \in GuardSizes, site \in ReallocSites :
       \E ptr \in GuardArgs(stale) :
       \E magic \in HeaderMagics(hdr, heap, ptr) :
       \E m \in GuardReallocAnswers(ptr, size, magic) :
          LET r == zdebug_realloc_loc(hdr, g_zdebug_head, mem, heap, ptr, size,
                                      site[1], site[2], magic, m)
              gone == IF stale THEN {}
                      ELSE IF r.released \/ r.ptr # NULL THEN {ptr} \ {NULL} ELSE {}
          IN
          /\ GuardBecomes(r)
          /\ glive' = (glive \ gone) \cup (IF r.ptr # NULL THEN {r.ptr} ELSE {})
          /\ greleased' = IF r.released /\ ~stale THEN greleased \cup {ptr} ELSE greleased
          /\ gviol' = IF stale THEN gviol \cup {"stale"} ELSE gviol
          /\ GuardReturned("realloc", ptr, size, r.ptr, 0, stale,
                           size # 0 /\ m = NULL /\ r.fault = "none", 0,
                           IF ptr = NULL THEN << >> ELSE magic, r.site)
    /\ GuardFrame

GuardFree(n) ==
    /\ GuardCall(n)
    /\ \E stale \in BOOLEAN :
       \E ptr \in GuardArgs(stale) :
       \E magic \in HeaderMagics(hdr, heap, ptr) :
          LET r == zdebug_free(hdr, g_zdebug_head, mem, heap, ptr, magic) IN
          /\ GuardBecomes(r)
          /\ glive' = IF r.released /\ ~stale THEN glive \ {ptr} ELSE glive
          /\ greleased' = IF r.released /\ ~stale THEN greleased \cup {ptr} ELSE greleased
          /\ gviol' = IF stale THEN gviol \cup {"stale"} ELSE gviol
          /\ GuardReturned("free", ptr, 0, NULL, 0, stale, FALSE, 0,
                           IF ptr = NULL THEN << >> ELSE magic, << >>)
    /\ GuardFrame

\* The caller writes one byte into a payload it holds (off < size), or one byte
\* past it (off = size), which is a violation on its part.
GuardWrite(n) ==
    /\ GuardCall(n)
    /\ \E ptr \in glive :
       \E off \in 0 .. hdr[HeaderOf(ptr)].size, byte \in GuardBytes :
          LET past == off = hdr[HeaderOf(ptr)].size IN
          /\ HeaderOf(ptr) \in DOMAIN heap
          /\ mem' = MemSet(mem, ptr + off, byte, 1)
          /\ gviol' = IF past THEN gviol \cup {"past"} ELSE gviol
          /\ GuardReturned(IF past THEN "write_past" ELSE "write", ptr, off, NULL, byte,
                           FALSE, FALSE, 0, << >>, << >>)
    /\ UNCHANGED <<fault, heap, hdr, g_zdebug_head, glive, greleased>>
    /\ GuardFrame

GuardPrintLeaks(n) ==
    /\ GuardCall(n)
    /\ GuardReturned("print_leaks", NULL, 0, NULL, 0, FALSE, FALSE,
                     zdebug_print_leaks(hdr, g_zdebug_head), << >>, << >>)
    /\ UNCHANGED <<fault, heap, mem, hdr, g_zdebug_head, glive, greleased, gviol>>
    /\ GuardFrame

GuardNext ==
    \/ GuardMalloc(MaxGuardOps)
    \/ GuardCalloc(MaxGuardOps)
    \/ GuardRealloc(MaxGuardOps)
    \/ GuardFree(MaxGuardOps)
    \/ GuardWrite(MaxGuardOps)
    \/ GuardPrintLeaks(MaxGuardOps)

\* The headers on the live list, as a set.
LiveSet(hd, head) == {LiveList(hd, head)[i] : i \in 1 .. Len(LiveList(hd, head))}

\* C7: after guard operations that raise no memory-safety violation (allocate,
\* allocate_zero, reallocate, release, backend failures included),
\* zdebug_print_leaks returns exactly the number of payload pointers handed out
\* and not yet released; after releasing all of them it returns 0.
C7_LeakCount ==
    (fault = "none" /\ gviol = {})
        => /\ zdebug_print_leaks(hdr, g_zdebug_head) = Cardinality(glive)
           /\ LiveSet(hdr, g_zdebug_head) = {HeaderOf(p) : p \in glive}
           /\ gret.op = "print_leaks" => gret.count = Cardinality(glive)

C7_Witness ==
    /\ fault = "none" /\ gviol = {}
    /\ gret.op = "print_leaks"
    /\ gret.count = 1
    /\ Cardinality(glive) = 1
    /\ greleased # {}

\* A zdebug_free of a pointer the caller has released before, its first violation.
SecondFree ==
    /\ gops' = gops + 1
    /\ gret'.op = "free"
    /\ gret'.stale
    /\ gviol = {}

\* C8: a second zdebug_free(p) of a pointer that the guard returned and that was
\* released once ends in a fatal abort: it does not return normally, unlinks
\* nothing from the live list and releases nothing to the backend, also when
\* other guard allocations are made between the two releases.
C8_DoubleFreeAborts ==
    [][SecondFree => /\ fault' \in {"double_free", "invalid_free"}
                     /\ g_zdebug_head' = g_zdebug_head
                     /\ hdr' = hdr
                     /\ heap' = heap]_vars

\* zdebug_free(p) right after the caller wrote one byte at offset size of the
\* live allocation p.
FreeAfterWritePast ==
    /\ gret.op = "write_past"
    /\ "stale" \notin gviol
    /\ gops' = gops + 1
    /\ gret'.op = "free"
    /\ ~gret'.stale
    /\ gret'.arg = gret.arg

OverflowAbort ==
    /\ fault' = "buffer_overflow"
    /\ g_zdebug_head' = g_zdebug_head
    /\ hdr' = hdr
    /\ heap' = heap

\* C9 as stated: a byte of any value written at payload offset n of a live
\* allocation of size n makes the following zdebug_free end in the
\* buffer-overflow abort, the header still linked and its memory not released.
C9_AnyByteDetected == [][FreeAfterWritePast => OverflowAbort]_vars

\* C9, amended: a byte of any value other than ZDEBUG_CANARY_VAL (0xBB) written
\* at payload offset n of a live allocation of size n makes the following
\* zdebug_free end in the buffer-overflow abort, the header still linked and its
\* memory not released.
C9_OtherByteDetected ==
    [][(FreeAfterWritePast /\ gret.byte # ZDEBUG_CANARY_VAL) => OverflowAbort]_vars

C9_Witness ==
    /\ fault = "buffer_overflow"
    /\ gret.op = "free"
    /\ gret.prev = "write_past"
    /\ gret.arg = gret.prev_arg
    /\ gviol = {"past"}
    /\ HeaderOf(gret.arg) \in LiveSet(hdr, g_zdebug_head)

\* zdebug_realloc_loc(p, size > 0) on a valid live pointer, the backend failing.
ReallocFails ==
    /\ gops' = gops + 1
    /\ gret'.op = "realloc"
    /\ gret'.failed
    /\ gret'.arg # NULL
    /\ ~gret'.stale
    /\ gviol = {}

\* The number of times h is met on the live list.
TimesListed(hd, head, h) ==
    Cardinality({i \in 1 .. Len(LiveList(hd, head)) : LiveList(hd, head)[i] = h})

\* C10: when the backend resize fails inside zdebug_realloc_loc(p, new_size > 0)
\* on a valid live pointer p, the call returns null; p's header keeps magic
\* ALIVE, its size and origin, the canary and the payload bytes are unchanged,
\* the header is on the live list exactly once and the set of live allocations
\* is what it was.
C10_ReallocFailureKeeps ==
    [][ReallocFails =>
         LET h == HeaderOf(gret'.arg) IN
         /\ gret'.ptr = NULL
         /\ fault' = "none"
         /\ hdr'[h].magic = ZDEBUG_MAGIC_ALIVE
         /\ hdr'[h].size = hdr[h].size
         /\ hdr'[h].file = hdr[h].file
         /\ hdr'[h].line = hdr[h].line
         /\ _zdebug_check_canary(mem', hdr', h)
         /\ mem' = mem
         /\ heap' = heap
         /\ TimesListed(hdr', g_zdebug_head', h) = 1
         /\ LiveSet(hdr', g_zdebug_head') = LiveSet(hdr, g_zdebug_head)
         /\ glive' = glive]_vars

\* The older of two live allocations survives a failed resize; it had a byte written.
C10_Witness ==
    /\ fault = "none" /\ gviol = {}
    /\ gret.op = "realloc" /\ gret.failed /\ gret.arg # NULL
    /\ gret.ptr = NULL
    /\ Cardinality(glive) = 2
    /\ g_zdebug_head = HeaderOf(gret.arg)
    /\ hdr[g_zdebug_head].next # NULL

\* The step is zdebug_realloc_loc(ptr, size) with ptr non-null and size non-zero.
ReallocChecks ==
    /\ gops' = gops + 1
    /\ gret'.op = "realloc"
    /\ gret'.arg # NULL
    /\ gret'.size # 0

\* Some byte of the footer after the payload of header h is not 0xBB.
FooterBroken(h) ==
    \E i \in 0 .. (ZDEBUG_CANARY_SIZE - 1) :
        LET x == W(W(UserMem(h) + hdr[h].size) + i) IN
        x \notin DOMAIN mem \/ mem[x] # ZDEBUG_CANARY_VAL

\* The aborting call touched neither the live list nor the backend.
GuardUntouched ==
    /\ hdr' = hdr
    /\ g_zdebug_head' = g_zdebug_head
    /\ heap' = heap
    /\ mem' = mem
    /\ gret'.ptr = NULL

\* C13 as stated: zdebug_realloc_loc with a non-null pointer and a non-zero size
\* validates like zdebug_free: a FREED magic yields the double-free diagnostic, a
\* magic neither ALIVE nor FREED the invalid-pointer diagnostic, a corrupted
\* canary the corruption diagnostic, and the abort comes before the live list or
\* the backend is touched.
C13_ReallocLikeFree ==
    [][ReallocChecks =>
         LET h == HeaderOf(gret'.arg) IN
         /\ gret'.magic = ZDEBUG_MAGIC_FREED => fault' = "double_free" /\ GuardUntouched
         /\ gret'.magic \notin {ZDEBUG_MAGIC_ALIVE, ZDEBUG_MAGIC_FREED}
               => fault' = "invalid_free" /\ GuardUntouched
         /\ gret'.magic = ZDEBUG_MAGIC_ALIVE /\ FooterBroken(h)
               => fault' = "corruption" /\ GuardUntouched]_vars

\* C13, amended: zdebug_realloc_loc with a non-null pointer and a non-zero size
\* aborts with one and the same "bad realloc pointer" diagnostic, naming the
\* file and line of the realloc call, whenever the magic it reads is not ALIVE
\* (FREED or unknown alike); with an ALIVE magic and a corrupted canary it aborts
\* with the corruption diagnostic naming the file and line recorded in the
\* header; in both cases before the live list or the backend is touched.
C13_ReallocValidates ==
    [][ReallocChecks =>
         LET h == HeaderOf(gret'.arg) IN
         /\ gret'.magic # ZDEBUG_MAGIC_ALIVE
               => /\ fault' = "bad_realloc"
                  /\ gret'.site \in ReallocSites
                  /\ GuardUntouched
         /\ gret'.magic = ZDEBUG_MAGIC_ALIVE /\ FooterBroken(h)
               => /\ fault' = "corruption"
                  /\ gret'.site = <<hdr[h].file, hdr[h].line>>
                  /\ GuardUntouched]_vars

\* zdebug_realloc_loc read FREED in the header of a pointer released before.
C13_Witness ==
    /\ gret.op = "realloc" /\ gret.arg # NULL /\ gret.size # 0
    /\ gret.magic = ZDEBUG_MAGIC_FREED
    /\ gret.stale
    /\ fault = "bad_realloc"

\* The step is a successful zdebug_realloc_loc(p, new_size > 0) on a valid live
\* pointer, no violation having been made before.
ReallocSucceeds ==
    /\ gops' = gops + 1
    /\ gret'.op = "realloc"
    /\ gret'.arg # NULL /\ gret'.size # 0
    /\ ~gret'.stale
    /\ gviol = {}
    /\ gret'.ptr # NULL

\* The header fields and the bytes (payload and canary) of the allocation p.
Allocation(hd, me, p) ==
    LET h == HeaderOf(p) IN
    [magic |-> hd[h].magic, size |-> hd[h].size, file |-> hd[h].file, line |-> hd[h].line,
     bytes |-> [i \in {j \in 0 .. (hd[h].size + ZDEBUG_CANARY_SIZE - 1) : p + j \in DOMAIN me}
                  |-> me[p + i]]]

\* C23: a successful zdebug_realloc_loc(p, new_size > 0) on a valid live pointer
\* returns a payload whose header has magic ALIVE, size = new_size and the new
\* origin, whose first min(old size, new_size) bytes are the old payload's, and
\* whose 16 bytes at offset new_size hold the sentinel; the allocation is on the
\* live list exactly once, every other live allocation is unaffected, and a
\* zdebug_free of the returned pointer succeeds.
C23_ReallocSuccess ==
    [][ReallocSucceeds =>
         LET p     == gret'.arg
             q     == gret'.ptr
             h     == HeaderOf(p)
             new_h == HeaderOf(q)
             old   == hdr[h].size
             kept  == IF old < gret'.size THEN old ELSE gret'.size
         IN  /\ fault' = "none"
             /\ hdr'[new_h].magic = ZDEBUG_MAGIC_ALIVE
             /\ hdr'[new_h].size = gret'.size
             /\ <<hdr'[new_h].file, hdr'[new_h].line>> \in ReallocSites
             /\ \A i \in 0 .. (kept - 1) :
                   p + i \in DOMAIN mem => (q + i \in DOMAIN mem' /\ mem'[q + i] = mem[p + i])
             /\ \A i \in 0 .. (ZDEBUG_CANARY_SIZE - 1) :
                   /\ q + gret'.size + i \in DOMAIN mem'
                   /\ mem'[q + gret'.size + i] = ZDEBUG_CANARY_VAL
             /\ TimesListed(hdr', g_zdebug_head', new_h) = 1
             /\ LiveSet(hdr', g_zdebug_head') = (LiveSet(hdr, g_zdebug_head) \ {h}) \cup {new_h}
             /\ glive' = (glive \ {p}) \cup {q}
             /\ \A o \in glive \ {p} : Allocation(hdr', mem', o) = Allocation(hdr, mem, o)
             /\ new_h \in DOMAIN heap' /\ heap'[new_h] = SizeofHeader + gret'.size + ZDEBUG_CANARY_SIZE
             /\ LET f == zdebug_free(hdr', g_zdebug_head', mem', heap', q, hdr'[new_h].magic)
                IN  /\ f.fault = "none" /\ f.released
                    /\ new_h \notin DOMAIN f.heap
                    /\ LiveSet(f.hdr, f.head) = LiveSet(hdr, g_zdebug_head) \ {h}]_vars

\* An allocation of one written byte, another one live, was moved and grown to
\* two bytes.
C23_Witness ==
    /\ fault = "none" /\ gviol = {}
    /\ gret.op = "realloc" /\ gret.arg # NULL /\ gret.ptr # NULL
    /\ gret.ptr # gret.arg
    /\ gret.size = 2
    /\ gret.ptr \in DOMAIN mem /\ mem[gret.ptr] \in GuardBytes
    /\ Cardinality(glive) = 2
    /\ g_zdebug_head = HeaderOf(gret.ptr)

\* ------------------------------------------------------- guard: threads
\* Threads calling the guard at once, each on the pointers it holds itself, and
\* the number of guard calls each makes.
ThreadCount == 2
MaxThreadOps == 3
Threads == 1 .. ThreadCount
NoThread == 0
\* Payload sizes the threads ask for.
ThreadMallocSizes == {1}
ThreadReallocSizes == {2}

\* ZDEBUG_LOCK left at its default, the empty macro: it never waits.
ZDEBUG_LOCK_unbound(lk, t) == TRUE

\* ZDEBUG_LOCK() bound to a mutual-exclusion lock: thread t gets past it when
\* no thread holds the lock.
ZDEBUG_LOCK(lk, t) == lk = NoThread

ThreadInitState ==
    /\ lock = NoThread
    /\ tpc = [t \in Threads |-> "idle"]
    /\ th = [t \in Threads |-> [op |-> "none", h |-> NULL, size |-> 0, site |-> << >>,
                                own |-> {}, ops |-> 0, count |-> 0]]

ThreadFrame == UNCHANGED <<arenaVars, poolVars, glive, greleased, gviol, gret, gops>>

ThreadCall(t) == fault = "none" /\ tpc[t] = "idle" /\ th[t].ops < MaxThreadOps

\* Thread t is at label and the process has not aborted.
At(t, label) == fault = "none" /\ tpc[t] = label

Goto(t, label) == tpc' = [tpc EXCEPT ![t] = label]

\* zdebug_malloc_loc up to its call of _zdebug_add.
ThreadMalloc(t) ==
    /\ ThreadCall(t)
    /\ \E size \in ThreadMallocSizes, site \in MallocSites :
       \E m \in Z_MALLOC(heap, TotalSize(size), GuardMallocChoices) :
          IF m = NULL
          THEN /\ th' = [th EXCEPT ![t].op = "malloc", ![t].ops = @ + 1]
               /\ UNCHANGED <<hdr, mem, heap, tpc>>
          ELSE LET hd1 == [x \in DOMAIN hdr \cup {m} |->
                             IF x = m
                             THEN [prev |-> NULL, next |-> NULL, file |-> site[1],
                                   line |-> site[2], size |-> size,
                                   magic |-> ZDEBUG_MAGIC_ALIVE]
                             ELSE hdr[x]]
               IN  /\ hdr' = hd1
                   /\ mem' = _zdebug_set_canary(mem, hd1, m)
                   /\ heap' = HeapPut(heap, m, TotalSize(size))
                   /\ th' = [th EXCEPT ![t].op = "malloc", ![t].ops = @ + 1, ![t].h = m]
                   /\ Goto(t, "add_lock")
    /\ UNCHANGED <<fault, g_zdebug_head, lock>>
    /\ ThreadFrame

\* _zdebug_add, statement by statement.
ThreadAddLock(t) ==
    /\ At(t, "add_lock")
    /\ ZDEBUG_LOCK(lock, t)
    /\ lock' = t
    /\ Goto(t, "add_next")
    /\ UNCHANGED <<fault, heap, mem, hdr, g_zdebug_head, th>>
    /\ ThreadFrame

ThreadAddNext(t) ==
    /\ At(t, "add_next")
    /\ hdr' = [hdr EXCEPT ![th[t].h].next = g_zdebug_head, ![th[t].h].prev = NULL]
    /\ Goto(t, "add_prev")
    /\ UNCHANGED <<fault, heap, mem, g_zdebug_head, lock, th>>
    /\ ThreadFrame

ThreadAddPrev(t) ==
    /\ At(t, "add_prev")
    /\ hdr' = IF g_zdebug_head # NULL THEN [hdr EXCEPT ![g_zdebug_head].prev = th[t].h]
              ELSE hdr
    /\ Goto(t, "add_head")
    /\ UNCHANGED <<fault, heap, mem, g_zdebug_head, lock, th>>
    /\ ThreadFrame

ThreadAddHead(t) ==
    /\ At(t, "add_head")
    /\ g_zdebug_head' = th[t].h
    /\ Goto(t, "add_unlock")
    /\ UNCHANGED <<fault, heap, mem, hdr, lock, th>>
    /\ ThreadFrame

\* ZDEBUG_UNLOCK(), and the call returns the payload pointer.
ThreadAddUnlock(t) ==
    /\ At(t, "add_unlock")
    /\ lock' = NoThread
    /\ th' = [th EXCEPT ![t].own = @ \cup {UserMem(th[t].h)}]
    /\ Goto(t, "idle")
    /\ UNCHANGED <<fault, heap, mem, hdr, g_zdebug_head>>
    /\ ThreadFrame

\* What the validation of the header of ptr ends in.
Validated(ptr, bad_magic, bad_canary) ==
    IF hdr[HeaderOf(ptr)].magic # ZDEBUG_MAGIC_ALIVE THEN bad_magic
    ELSE IF ~_zdebug_check_canary(mem, hdr, HeaderOf(ptr)) THEN bad_canary
    ELSE "none"

\* zdebug_free of a pointer the thread holds, up to its call of _zdebug_remove.
ThreadFree(t) ==
    /\ ThreadCall(t)
    /\ \E ptr \in th[t].own :
          LET h == HeaderOf(ptr)
              v == Validated(ptr, "invalid_free", "buffer_overflow")
          IN  /\ fault' = v
              /\ IF v = "none"
                 THEN /\ hdr' = [hdr EXCEPT ![h].magic = ZDEBUG_MAGIC_FREED]
                      /\ Goto(t, "rm_lock")
                 ELSE UNCHANGED <<hdr, tpc>>
              /\ th' = [th EXCEPT ![t].op = "free", ![t].ops = @ + 1, ![t].h = h,
                                  ![t].own = @ \ {ptr}]
    /\ UNCHANGED <<heap, mem, g_zdebug_head, lock>>
    /\ ThreadFrame

\* zdebug_realloc_loc(ptr, size > 0) of a pointer the thread holds, up to its
\* call of _zdebug_remove.
ThreadRealloc(t) ==
    /\ ThreadCall(t)
    /\ \E ptr \in th[t].own, size \in ThreadReallocSizes, site \in ReallocSites :
          LET h == HeaderOf(ptr)
              v == Validated(ptr, "bad_realloc", "corruption")
          IN  /\ fault' = v
              /\ IF v = "none" THEN Goto(t, "rm_lock") ELSE UNCHANGED tpc
              /\ th' = [th EXCEPT ![t].op = "realloc", ![t].ops = @ + 1, ![t].h = h,
                                  ![t].size = size, ![t].site = site,
                                  ![t].own = @ \ {ptr}]
    /\ UNCHANGED <<heap, mem, hdr, g_zdebug_head, lock>>
    /\ ThreadFrame

\* _zdebug_remove, statement by statement.
ThreadRemoveLock(t) ==
    /\ At(t, "rm_lock")
    /\ ZDEBUG_LOCK(lock, t)
    /\ lock' = t
    /\ Goto(t, "rm_prev")
    /\ UNCHANGED <<fault, heap, mem, hdr, g_zdebug_head, th>>
    /\ ThreadFrame

ThreadRemovePrev(t) ==
    /\ At(t, "rm_prev")
    /\ LET h == th[t].h IN
       IF hdr[h].prev # NULL
       THEN /\ hdr' = [hdr EXCEPT ![hdr[h].prev].next = hdr[h].next]
            /\ UNCHANGED g_zdebug_head
       ELSE /\ g_zdebug_head' = hdr[h].next
            /\ UNCHANGED hdr
    /\ Goto(t, "rm_next")
    /\ UNCHANGED <<fault, heap, mem, lock, th>>
    /\ ThreadFrame

ThreadRemoveNext(t) ==
    /\ At(t, "rm_next")
    /\ LET h == th[t].h IN
       hdr' = IF hdr[h].next # NULL THEN [hdr EXCEPT ![hdr[h].next].prev = hdr[h].prev]
              ELSE hdr
    /\ Goto(t, "rm_unlock")
    /\ UNCHANGED <<fault, heap, mem, g_zdebug_head, lock, th>>
    /\ ThreadFrame

\* ZDEBUG_UNLOCK(): zdebug_free goes on to free(h), zdebug_realloc_loc to realloc(h).
ThreadRemoveUnlock(t) ==
    /\ At(t, "rm_unlock")
    /\ lock' = NoThread
    /\ Goto(t, IF th[t].op = "free" THEN "free_chunk" ELSE "resize")
    /\ UNCHANGED <<fault, heap, mem, hdr, g_zdebug_head, th>>
    /\ ThreadFrame

\* zdebug_free's free(h).
ThreadFreeChunk(t) ==
    /\ At(t, "free_chunk")
    /\ LET h == th[t].h IN
       /\ heap' = HeapDel(heap, {h})
       /\ mem' = IF h \in DOMAIN heap THEN MemDrop(mem, h, ChunkLen(heap[h])) ELSE mem
    /\ Goto(t, "idle")
    /\ UNCHANGED <<fault, hdr, g_zdebug_head, lock, th>>
    /\ ThreadFrame

\* zdebug_realloc_loc's realloc(h, total_size) and what follows it up to the
\* call of _zdebug_add: of h again when the backend refused, of new_h otherwise.
ThreadResize(t) ==
    /\ At(t, "resize")
    /\ LET h == th[t].h
           size == th[t].size
       IN
       \E m \in Z_REALLOC(heap, h, TotalSize(size), GuardMallocChoices) :
          IF m = NULL
          THEN UNCHANGED <<hdr, mem, heap, th>>
          ELSE LET old  == hdr[h].size
                   kept == IF old < size THEN old ELSE size
                   hd1  == [x \in DOMAIN hdr \cup {m} |->
                              IF x = m
                              THEN [hdr[h] EXCEPT !.size = size, !.file = th[t].site[1],
                                                  !.line = th[t].site[2]]
                              ELSE hdr[x]]
                   me1  == IF m = h THEN mem
                           ELSE MemDrop(MemCpy(MemDrop(mem, m, ChunkLen(TotalSize(size))),
                                               UserMem(m), UserMem(h), kept),
                                        h, ChunkLen(heap[h]))
               IN  /\ hdr' = hd1
                   /\ mem' = _zdebug_set_canary(me1, hd1, m)
                   /\ heap' = HeapRealloc(heap, h, TotalSize(size), m)
                   /\ th' = [th EXCEPT ![t].h = m]
    /\ Goto(t, "add_lock")
    /\ UNCHANGED <<fault, g_zdebug_head, lock>>
    /\ ThreadFrame

\* zdebug_print_leaks: the whole walk is made between ZDEBUG_LOCK() and
\* ZDEBUG_UNLOCK().
ThreadLeaks(t) ==
    /\ ThreadCall(t)
    /\ th' = [th EXCEPT ![t].op = "leaks", ![t].ops = @ + 1]
    /\ Goto(t, "leaks_lock")
    /\ UNCHANGED <<fault, heap, mem, hdr, g_zdebug_head, lock>>
    /\ ThreadFrame

ThreadLeaksLock(t) ==
    /\ At(t, "leaks_lock")
    /\ ZDEBUG_LOCK(lock, t)
    /\ lock' = t
    /\ Goto(t, "leaks_walk")
    /\ UNCHANGED <<fault, heap, mem, hdr, g_zdebug_head, th>>
    /\ ThreadFrame

ThreadLeaksWalk(t) ==
    /\ At(t, "leaks_walk")
    /\ th' = [th EXCEPT ![t].count = zdebug_print_leaks(hdr, g_zdebug_head)]
    /\ Goto(t, "leaks_unlock")
    /\ UNCHANGED <<fault, heap, mem, hdr, g_zdebug_head, lock>>
    /\ ThreadFrame

ThreadLeaksUnlock(t) ==
    /\ At(t, "leaks_unlock")
    /\ lock' = NoThread
    /\ Goto(t, "idle")
    /\ UNCHANGED <<fault, heap, mem, hdr, g_zdebug_head, th>>
    /\ ThreadFrame

ThreadNext ==
    \E t \in Threads :
        \/ ThreadMalloc(t)
        \/ ThreadAddLock(t) \/ ThreadAddNext(t) \/ ThreadAddPrev(t) \/ ThreadAddHead(t)
        \/ ThreadAddUnlock(t)
        \/ ThreadFree(t)
        \/ ThreadRealloc(t)
        \/ ThreadRemoveLock(t) \/ ThreadRemovePrev(t) \/ ThreadRemoveNext(t)
        \/ ThreadRemoveUnlock(t)
        \/ ThreadFreeChunk(t)
        \/ ThreadResize(t)
        \/ ThreadLeaks(t) \/ ThreadLeaksLock(t) \/ ThreadLeaksWalk(t) \/ ThreadLeaksUnlock(t)

\* The labels between ZDEBUG_LOCK() and ZDEBUG_UNLOCK(): at each of them the
\* thread is about to read or write g_zdebug_head or a prev/next link.
LockedLabels ==
    {"add_next", "add_prev", "add_head", "add_unlock",
     "rm_prev", "rm_next", "rm_unlock", "leaks_walk", "leaks_unlock"}

\* The live list is a well-formed doubly-linked list.
ListWellFormed(hd, head) ==
    LET l == LiveList(hd, head) IN
    /\ head # NULL => hd[head].prev = NULL
    /\ \A i \in 1 .. Len(l) :
          /\ l[i] \in DOMAIN hd
          /\ i < Len(l) => hd[l[i]].next = l[i + 1] /\ hd[l[i + 1]].prev = l[i]
    /\ Len(l) > 0 => hd[l[Len(l)]].next = NULL
    /\ Cardinality({l[i] : i \in 1 .. Len(l)}) = Len(l)

\* The payload pointers the threads hold.
ThreadsOwn == UNION {th[t].own : t \in Threads}

\* C24: with ZDEBUG_LOCK/ZDEBUG_UNLOCK bound to a mutual-exclusion lock, a
\* thread reads or writes g_zdebug_head and the prev/next links only while it
\* holds the lock; for every interleaving of threads working each on its own
\* pointers the live list is a well-formed doubly-linked list whenever no thread
\* is inside the lock, and when every thread is between calls it holds exactly
\* the allocations not released.
C24_LockedList ==
    /\ \A t \in Threads : tpc[t] \in LockedLabels => lock = t
    /\ lock = NoThread => ListWellFormed(hdr, g_zdebug_head)
    /\ (\A t \in Threads : tpc[t] = "idle") =>
          /\ fault = "none"
          /\ LiveSet(hdr, g_zdebug_head) = {HeaderOf(ptr) : ptr \in ThreadsOwn}
          /\ \A ptr \in ThreadsOwn : hdr[HeaderOf(ptr)].magic = ZDEBUG_MAGIC_ALIVE
          /\ DOMAIN heap = {HeaderOf(ptr) : ptr \in ThreadsOwn}
    /\ \A t \in Threads : (tpc[t] = "leaks_unlock") =>
          th[t].count = Cardinality(LiveSet(hdr, g_zdebug_head))

\* Both threads have made all their calls; each holds an allocation, one of
\* them resized, and both are on the list.
C24_Witness ==
    /\ \A t \in Threads : tpc[t] = "idle" /\ th[t].ops = MaxThreadOps /\ th[t].own # {}
    /\ th[1].op = "realloc" /\ th[2].op = "free"
    /\ Cardinality(LiveSet(hdr, g_zdebug_head)) = 2

\* C26: in every state reached by single-threaded guard operations that raise
\* no violation, the global live list is a well-formed doubly-linked list: the
\* head's prev is null, every listed header h with a successor has
\* h.next.prev = h, the list is acyclic and lists no header twice, every listed
\* header has magic ALIVE, and no released header is listed.
C26_LiveListWellFormed ==
    (fault = "none" /\ gviol = {}) =>
        LET live == LiveSet(hdr, g_zdebug_head) IN
        /\ ListWellFormed(hdr, g_zdebug_head)
        /\ \A h \in live : hdr[h].magic = ZDEBUG_MAGIC_ALIVE
        /\ live \subseteq DOMAIN heap
        /\ \A p \in greleased \ glive : HeaderOf(p) \notin live
        /\ \A h \in DOMAIN hdr : hdr[h].magic = ZDEBUG_MAGIC_FREED => h \notin live

\* Three allocations were listed and the middle one was released: the two
\* others are linked to each other.
C26_Witness ==
    /\ fault = "none" /\ gviol = {}
    /\ gret.op = "free"
    /\ Cardinality(glive) = 2
    /\ Cardinality(greleased) = 1
    /\ LET l == LiveList(hdr, g_zdebug_head) IN
       /\ Len(l) = 2
       /\ \E p \in greleased : l[2] < HeaderOf(p) /\ HeaderOf(p) < l[1]
       /\ hdr[l[1]].next = l[2]
       /\ hdr[l[2]].prev = l[1]

Init ==
    /\ fault = "none"
    /\ heap = EmptyMap
    /\ ArenaInitState
    /\ PoolInitState
    /\ GuardInitState
    /\ ThreadInitState

Next == ArenaNext \/ PoolNext \/ GuardNext \/ ThreadNext

Spec == Init /\ [][Next]_vars

ArenaSpec == Init /\ [][ArenaNext]_vars

ArenaChainSpec == Init /\ [][ArenaChainNext]_vars

PoolSpec == Init /\ [][PoolNext]_vars

PoolGrowSpec == Init /\ [][PoolGrowNext]_vars

GuardSpec == Init /\ [][GuardNext]_vars

ThreadSpec == Init /\ [][ThreadNext]_vars
====
